---- MODULE Spec2Model ----
(***************************************************************************)
(* The task board of the community application (the Tasks page, in its     *)
(* first and its later revision), the tasks table it reads and writes, and *)
(* the row-level policies of the migrations that guard that table.         *)
(*                                                                         *)
(* Numbers.  A coordinate is an integer count of 1/10000 degree.  Angles   *)
(* are integers in nanoradians, the haversine term `a` is in units of      *)
(* 10^-18, and calculateDistance returns millimetres.  Every division      *)
(* rounds toward zero, as IEEE arithmetic is symmetric in the sign.        *)
(***************************************************************************)
EXTENDS Integers, Sequences, FiniteSets, TLC

\* ------------------------------------------------------------------ bounds
MaxLatIdx == 1      \* latitudes are 0 and 8, 12, ..., 4 + 4*MaxLatIdx units
MaxLngIdx == 1      \* longitudes are 3, ..., 3*MaxLngIdx units
MaxTasks == 2       \* rows ever inserted into the tasks table
MaxInflight == 1    \* fetchTasks calls of one board that have not resolved
MaxNotif == 1       \* change notifications queued for one board
MaxGridIdx == 2     \* SpecPure: coordinates are 4k and 3k units, |k| <= MaxGridIdx
MaxListLen == 2     \* SpecPure: length of the lists handed to the filter
MaxPosts == 2       \* SpecFeed: rows ever inserted into the posts table
MaxOverlap == 2     \* fetchTasks calls of the one board of SpecRace in flight
MaxMessages == 2    \* SpecChat: rows ever inserted into the messages table
MaxSends == 1       \* SpecChat: inserts of one Messages page not yet answered
MaxChatFetch == 1   \* SpecChat: fetchMessages calls of one page not yet resolved
MaxMarks == 1       \* SpecChat: markDelivered runs of one page not yet finished
MaxEvents == 2      \* SpecChat: realtime events queued for one chat channel
MaxFriendCalls == 3 \* SpecFriends: fetches of one Friends page not yet resolved
MaxComments == 2    \* SpecBell: rows ever inserted into the post_comments table
MaxBellEvents == 2  \* SpecBell: realtime events queued for one bell

\* --------------------------------------------------------------- constants
\* A value that may be null is the empty sequence (null) or <<v>>.
Null == <<>>
Some(v) == <<v>>
Val(x) == x[1]
Users == {"u1", "u2"}
Admins == {"a1"}
\* The revision of the Tasks page each user runs: u1 the first, u2 the later.
revision == [c \in Users |-> IF c = "u1" THEN 1 ELSE 2]
Pi == 314159        \* Math.PI, scaled so that (units * Pi) / 180 is nanoradians
HalfTurn == 180
Unit == 10^9        \* 1.0 for a value held in nanoradians
R == 6371000        \* Earth's radius in metres
Threshold == 50     \* metres
MmPerM == 10^3

Latitudes == {0} \cup {4 + 4 * k : k \in 1..MaxLatIdx}
Longitudes == {3 * k : k \in 1..MaxLngIdx}
Positions == [lat : Latitudes, lng : Longitudes]

\* ------------------------------------------------------- fixed-point maths
Quot(a, b) == IF a >= 0 THEN a \div b ELSE -((-a) \div b)

\* Math.sqrt on a value in units of 10^-18; the result is in units of 10^-9.
\* 46340 is the largest root whose square fits 32 bits.
RECURSIVE SqrtBetween(_, _, _)
SqrtBetween(n, lo, hi) ==
  IF lo = hi THEN lo
  ELSE LET mid == (lo + hi + 1) \div 2
       IN IF mid * mid <= n THEN SqrtBetween(n, mid, hi)
                            ELSE SqrtBetween(n, lo, mid - 1)

Sqrt(n) == SqrtBetween(n, 0, 46340)

\* (deg * Math.PI) / 180
ToRadians(deg) == Quot(deg * Pi, HalfTurn)

\* Math.sin(x) = x - x^3/6 + ..., x in nanoradians, result in units of 10^-9
Sin(x) == x - Quot(Quot(Quot(x * x, Unit) * x, Unit), 6)

\* Math.cos(x) = 1 - x^2/2 + ..., x in nanoradians, result in units of 10^-4
CosUnit == 10^4
Cos(x) == CosUnit - Quot(Quot(x * x, Unit), 2 * (Unit \div CosUnit))

\* x * c / CosUnit without leaving 32 bits (x >= 0, 0 <= c <= CosUnit)
ScaleByCos(x, c) == (x \div CosUnit) * c + ((x % CosUnit) * c) \div CosUnit

\* Math.atan2(y, x) for 0 <= y << x, x close to 1.0: atan(y/x) = y/x - ...
Atan2(y, x) == y + Quot(y * (Unit - x), x)

\* A distance whose longitude term looks at the second point alone.
calculateDistanceFromSecond(lat1, lon1, lat2, lon2) ==
  LET phi1 == ToRadians(lat1)
      phi2 == ToRadians(lat2)
      dphi == ToRadians(lat2 - lat1)
      dlam == ToRadians(lon2)
      sp == Sin(Quot(dphi, 2))
      sl == Sin(Quot(dlam, 2))
      a == sp * sp + ScaleByCos(ScaleByCos(sl * sl, Cos(phi1)), Cos(phi2))
      rootA == Sqrt(a)
      rootOneMinusA == Unit - Quot(a, 2 * Unit)
      c == 2 * Atan2(rootA, rootOneMinusA)
  IN Quot(c * (R \div MmPerM), MmPerM)

calculateDistance(lat1, lon1, lat2, lon2) ==
  LET phi1 == ToRadians(lat1)
      phi2 == ToRadians(lat2)
      dphi == ToRadians(lat2 - lat1)
      dlam == ToRadians(lon2 - lon1)
      sp == Sin(Quot(dphi, 2))
      sl == Sin(Quot(dlam, 2))
      a == sp * sp + ScaleByCos(ScaleByCos(sl * sl, Cos(phi1)), Cos(phi2))
      rootA == Sqrt(a)
      rootOneMinusA == Unit - Quot(a, 2 * Unit)      \* Math.sqrt(1 - a)
      c == 2 * Atan2(rootA, rootOneMinusA)
  IN Quot(c * (R \div MmPerM), MmPerM)               \* R * c, in millimetres

\* --------------------------------------------------------------- the filter
\* JavaScript truthiness of a number | null: null and 0 are both falsy.
Truthy(x) == x # Null /\ Val(x) # 0

\* A threshold test that takes a distance of zero for a missing measurement.
WithinThresholdWhenPositive(distance) ==
  0 < distance /\ distance <= Threshold * MmPerM

WithinThreshold(distance) == distance <= Threshold * MmPerM

\* A filter that keeps only the tasks it can measure.
PassesLocatedOnly(task, loc) ==
  /\ Truthy(task.location_lat) /\ Truthy(task.location_lng)
  /\ WithinThreshold(calculateDistance(loc.lat, loc.lng,
                                       Val(task.location_lat),
                                       Val(task.location_lng)))

\* The predicate handed to Array.filter in fetchTasks.
Passes(task, loc) ==
  IF ~Truthy(task.location_lat) \/ ~Truthy(task.location_lng) THEN TRUE
  ELSE WithinThreshold(calculateDistance(loc.lat, loc.lng,
                                         Val(task.location_lat),
                                         Val(task.location_lng)))

\* A filter that, without a viewer location, hides every task that has one.
FilterTasksHidingLocated(data, loc) ==
  IF loc = Null
  THEN SelectSeq(data, LAMBDA t : t.location_lat = Null /\ t.location_lng = Null)
  ELSE SelectSeq(data, LAMBDA t : Passes(t, Val(loc)))

\* A filter that, with a viewer location, also drops the first task it kept.
FilterTasksDroppingFirst(data, loc) ==
  IF loc = Null THEN data
  ELSE LET kept == SelectSeq(data, LAMBDA t : Passes(t, Val(loc)))
       IN IF kept = <<>> THEN kept ELSE Tail(kept)

\* `let filtered = data; if (userLocation) filtered = data.filter(...)`
FilterTasks(data, loc) ==
  IF loc = Null THEN data ELSE SelectSeq(data, LAMBDA t : Passes(t, Val(loc)))

\* ------------------------------------------------------------------- state
VARIABLES
  tasksTable,     \* public.tasks: the set of stored rows
  nextId,         \* the next row's id; created_at grows with it
  mounted,        \* per user: the Tasks page is mounted and subscribed
  userLocation,   \* per user: React state userLocation
  geo,            \* per user: where the getCurrentPosition request stands
  effectLocation, \* per user: userLocation as closed over by the mount effect
  tasks,          \* per user: React state tasks, the displayed list
  inflight,       \* per user: the fetchTasks calls that have not resolved
  notif,          \* per user: change notifications not yet delivered
  toast,          \* the toast the last step raised: null, or its user and title
  taskToDelete,   \* per user: React state taskToDelete
  deleteDialogOpen, \* per user: React state deleteDialogOpen
  accepts,        \* the ids of the tasks an accept was reported successful for
  request,        \* the write the last step sent to storage: null, or its user,
                  \* operation, task id, outcome and the stored row it named
  resolved,       \* the fetchTasks call the last step resolved: null, or its
                  \* user, the rows it was given, the userLocation it filtered
                  \* with, the userLocation state as it resolved, the list
                  \* displayed before, and whether a later call resolved first
  postsTable,     \* public.posts: the set of stored rows
  nextPostId,     \* the next post's id; created_at grows with it
  feedMounted,    \* per user: CommunityFeed is mounted and subscribed
  posts,          \* per user: React state posts of CommunityFeed
  postsInflight,  \* per user: the fetchPosts calls that have not resolved
  postsNotif,     \* per user: posts-changes notifications not yet delivered
  adminMounted,   \* per admin: AdminDashboard is mounted and subscribed
  pendingPosts,   \* per admin: React state pendingPosts of AdminDashboard
  pendingInflight, \* per admin: the fetchPendingPosts calls not yet resolved
  adminNotif,     \* per admin: admin-posts-changes notifications not delivered
  approved,       \* the ids of the posts handleApprovePost has updated
  calc,           \* the last evaluation of a pure function: null, or its
                  \* arguments and results
  messagesTable,  \* public.messages: the set of stored rows
  nextMsgId,      \* the next message's id; created_at grows with it
  selectedFriend, \* per user: React state selectedFriend of Messages
  messages,       \* per user: React state messages, the displayed conversation
  chatFetch,      \* per user: the fetchMessages calls that have not resolved
  sends,          \* per user: the inserts of handleSendMessage not yet answered
  chatEvents,     \* per user: realtime events queued for the page's chat channel
  marks,          \* per user: the markDelivered runs that have not finished
  friendships,    \* public.friendships: the set of stored rows
  friendsMounted, \* per user: the Friends page is mounted and subscribed
  effectConnections, \* per user: the friends and pendingRequests of the render
                  \* the mount effect ran in, as ids
  acceptedFriends, \* per user: React state friends of the Friends page
  pendingRequests, \* per user: React state pendingRequests
  suggestions,    \* per user: React state suggestions, as profile ids
  friendCalls,    \* per user: the fetches of the Friends page not yet resolved
  friendNotif,    \* per user: friendships-changes notifications not delivered
  befriended,     \* the accept the last step reported successful: null, or the
                  \* user and the sender of the request
  suggested,      \* the fetchSuggestions call the last step resolved: null, or
                  \* its user, its profiles, the connections its render held
                  \* and those storage held when it issued the profiles query
  bellMounted,    \* per user: NotificationBell is mounted and subscribed
  notifications,  \* per user: React state notifications of the bell
  unreadCount,    \* per user: React state unreadCount
  bellFetch,      \* per user: the fetchNotifications calls not yet resolved
  bellEvents,     \* per user: realtime events queued for the bell's channels
  commentsTable,  \* public.post_comments: the set of stored rows
  nextCommentId   \* the next comment's id

boardVars == <<tasksTable, nextId, mounted, userLocation, geo,
               effectLocation, tasks, inflight, notif, toast, taskToDelete,
               deleteDialogOpen, accepts, request, resolved>>

feedVars == <<postsTable, nextPostId, feedMounted, posts, postsInflight,
              postsNotif, adminMounted, pendingPosts, pendingInflight,
              adminNotif, approved>>

chatVars == <<messagesTable, nextMsgId, selectedFriend, messages, chatFetch,
              sends, chatEvents, marks>>

\* The state of the pages other than the task board and the feed.
friendVars == <<friendships, friendsMounted, effectConnections, acceptedFriends,
                pendingRequests, suggestions, friendCalls, friendNotif,
                befriended, suggested>>

bellVars == <<bellMounted, notifications, unreadCount, bellFetch, bellEvents,
              commentsTable, nextCommentId>>

sideVars == <<chatVars, friendVars, bellVars>>

vars == <<boardVars, feedVars, sideVars, calc>>

Statuses == {"open", "in_progress", "completed", "cancelled"}

Init ==
  /\ tasksTable = {}
  /\ nextId = 1
  /\ mounted = [c \in Users |-> FALSE]
  /\ userLocation = [c \in Users |-> Null]
  /\ geo = [c \in Users |-> "idle"]
  /\ effectLocation = [c \in Users |-> Null]
  /\ tasks = [c \in Users |-> <<>>]
  /\ inflight = [c \in Users |-> <<>>]
  /\ notif = [c \in Users |-> 0]
  /\ toast = Null
  /\ taskToDelete = [c \in Users |-> Null]
  /\ deleteDialogOpen = [c \in Users |-> FALSE]
  /\ accepts = {}
  /\ request = Null
  /\ resolved = Null
  /\ postsTable = {}
  /\ nextPostId = 1
  /\ feedMounted = [c \in Users |-> FALSE]
  /\ posts = [c \in Users |-> <<>>]
  /\ postsInflight = [c \in Users |-> <<>>]
  /\ postsNotif = [c \in Users |-> 0]
  /\ adminMounted = [a \in Admins |-> FALSE]
  /\ pendingPosts = [a \in Admins |-> <<>>]
  /\ pendingInflight = [a \in Admins |-> <<>>]
  /\ adminNotif = [a \in Admins |-> 0]
  /\ approved = {}
  /\ calc = Null
  /\ messagesTable = {}
  /\ nextMsgId = 1
  /\ selectedFriend = [c \in Users |-> Null]
  /\ messages = [c \in Users |-> <<>>]
  /\ chatFetch = [c \in Users |-> <<>>]
  /\ sends = [c \in Users |-> <<>>]
  /\ chatEvents = [c \in Users |-> <<>>]
  /\ marks = [c \in Users |-> <<>>]
  /\ friendships = {}
  /\ friendsMounted = [c \in Users |-> FALSE]
  /\ effectConnections = [c \in Users |-> {}]
  /\ acceptedFriends = [c \in Users |-> {}]
  /\ pendingRequests = [c \in Users |-> {}]
  /\ suggestions = [c \in Users |-> {}]
  /\ friendCalls = [c \in Users |-> <<>>]
  /\ friendNotif = [c \in Users |-> 0]
  /\ befriended = Null
  /\ suggested = Null
  /\ bellMounted = [c \in Users |-> FALSE]
  /\ notifications = [c \in Users |-> <<>>]
  /\ unreadCount = [c \in Users |-> 0]
  /\ bellFetch = [c \in Users |-> <<>>]
  /\ bellEvents = [c \in Users |-> <<>>]
  /\ commentsTable = {}
  /\ nextCommentId = 1

\* ----------------------------------------------------------------- storage
\* .order('created_at', { ascending: false })
RECURSIVE OrderDesc(_)
OrderDesc(rows) ==
  IF rows = {} THEN <<>>
  ELSE LET newest == CHOOSE r \in rows : \A q \in rows : q.id <= r.id
       IN <<newest>> \o OrderDesc(rows \ {newest})

\* policy "Users can create tasks"
TasksInsertPolicy(uid, row) == uid = row.creator_id

\* policy "Users can update their own tasks or accepted tasks"
TasksUpdatePolicy(uid, row) == uid = row.creator_id \/ Some(uid) = row.accepted_by

\* policy "Users can delete their own tasks"
TasksDeletePolicy(uid, row) == uid = row.creator_id

\* A change on public.tasks reaches every channel subscribed to it.
Broadcast(changed) ==
  IF changed THEN [c \in Users |-> IF mounted[c] THEN notif[c] + 1 ELSE notif[c]]
  ELSE notif

RoomToBroadcast == \A c \in Users : notif[c] < MaxNotif

\* A call of fetchTasks from a render whose userLocation is loc.
CallFetch(queue, loc, state, shown) ==
  Append(queue, [phase |-> "sent", loc |-> loc, started |-> state, data |-> <<>>,
                 shown |-> shown, late |-> FALSE])

RemoveAt(seq, i) == SubSeq(seq, 1, i - 1) \o SubSeq(seq, i + 1, Len(seq))

\* The calls still in flight once call i has resolved: those made before it
\* are now late.
Overtaken(queue, i) ==
  RemoveAt([k \in 1..Len(queue) |->
              IF k < i THEN [queue[k] EXCEPT !.late = TRUE] ELSE queue[k]], i)

Displayed(c) == {tasks[c][i] : i \in 1..Len(tasks[c])}

Toast(c, title) == Some([user |-> c, title |-> title])

\* supabase.from('tasks').update(...).eq('id', id), issued by uid: the rows the
\* update policy lets uid touch.
UpdateTargets(uid, id) ==
  {r \in tasksTable : r.id = id /\ TasksUpdatePolicy(uid, r)}

\* supabase.from('tasks').delete().eq('id', id).eq('creator_id', uid)
DeleteTargets(uid, id) ==
  {r \in tasksTable : r.id = id /\ r.creator_id = uid /\ TasksDeletePolicy(uid, r)}

\* The card shown above the list while there is no viewer location
\* (`{!userLocation && <Card ...>}`).
LocationBanner(c) == mounted[c] /\ userLocation[c] = Null

\* ----------------------------------------------------------------- actions
\* The mount effect: getUserLocation(); fetchTasks(); subscribe to tasks-changes.
\* getUserLocation returns at once on a platform without navigator.geolocation.
Mount(c) ==
  /\ ~mounted[c]
  /\ mounted' = [mounted EXCEPT ![c] = TRUE]
  /\ \E hasGeolocation \in BOOLEAN :
       geo' = [geo EXCEPT ![c] = IF hasGeolocation THEN "pending" ELSE "unsupported"]
  /\ inflight' = [inflight EXCEPT ![c] = CallFetch(@, userLocation[c], userLocation[c], tasks[c])]
  /\ effectLocation' = [effectLocation EXCEPT ![c] = userLocation[c]]
  /\ UNCHANGED <<tasksTable, nextId, userLocation, tasks, notif,
                taskToDelete, deleteDialogOpen>>
  /\ toast' = Null
  /\ request' = Null
  /\ resolved' = Null
  /\ UNCHANGED accepts
  /\ UNCHANGED <<feedVars, sideVars, calc>>

\* getCurrentPosition's success callback
GeoSuccess(c) ==
  /\ geo[c] = "pending"
  /\ \E pos \in Positions : userLocation' = [userLocation EXCEPT ![c] = Some(pos)]
  /\ geo' = [geo EXCEPT ![c] = "success"]
  /\ toast' = IF revision[c] = 2 THEN Toast(c, "Location updated") ELSE Null
  /\ UNCHANGED <<tasksTable, nextId, mounted, effectLocation,
                tasks, inflight, notif, taskToDelete, deleteDialogOpen>>
  /\ request' = Null
  /\ resolved' = Null
  /\ UNCHANGED accepts
  /\ UNCHANGED <<feedVars, sideVars, calc>>

\* getCurrentPosition's error callback
GeoError(c) ==
  /\ geo[c] = "pending"
  /\ geo' = [geo EXCEPT ![c] = "error"]
  /\ toast' = Toast(c, IF revision[c] = 2 THEN "Location denied" ELSE "Location Error")
  /\ UNCHANGED <<tasksTable, nextId, mounted, userLocation,
                effectLocation, tasks, inflight, notif, taskToDelete,
                deleteDialogOpen>>
  /\ request' = Null
  /\ resolved' = Null
  /\ UNCHANGED accepts
  /\ UNCHANGED <<feedVars, sideVars, calc>>

\* The select of fetchTasks is served: it reads the table as it is now.
ServeSelect(c) ==
  /\ \E i \in 1..Len(inflight[c]) :
       /\ inflight[c][i].phase = "sent"
       /\ inflight' = [inflight EXCEPT ![c][i] =
                         [@ EXCEPT !.phase = "loaded", !.data = OrderDesc(tasksTable)]]
  /\ UNCHANGED <<tasksTable, nextId, mounted, userLocation, geo,
                effectLocation, tasks, notif, taskToDelete, deleteDialogOpen>>
  /\ toast' = Null
  /\ request' = Null
  /\ resolved' = Null
  /\ UNCHANGED accepts
  /\ UNCHANGED <<feedVars, sideVars, calc>>

\* The select of a fetchTasks call answered with an error: the call, and the
\* list that was displayed when it was made.
SelectFailed(c, f) ==
  Some([user |-> c, op |-> "select", id |-> 0, ok |-> FALSE, before |-> Null,
        shown |-> f.shown, display |-> tasks[c], pending |-> Len(inflight[c])])

\* An error branch that calls fetchTasks again.
FetchErrorRetrying(c) ==
  /\ \E i \in 1..Len(inflight[c]) :
       /\ inflight[c][i].phase = "sent"
       /\ inflight' = [inflight EXCEPT ![c] =
                         CallFetch(RemoveAt(@, i), userLocation[c], userLocation[c],
                                   tasks[c])]
       /\ request' = SelectFailed(c, inflight[c][i])
  /\ UNCHANGED <<tasksTable, nextId, mounted, userLocation, geo,
                effectLocation, tasks, notif, taskToDelete, deleteDialogOpen>>
  /\ toast' = Null
  /\ resolved' = Null
  /\ UNCHANGED accepts
  /\ UNCHANGED <<feedVars, sideVars, calc>>

\* `if (error) return console.error(error)`: nothing is displayed or retried.
FetchError(c) ==
  /\ \E i \in 1..Len(inflight[c]) :
       /\ inflight[c][i].phase = "sent"
       /\ inflight' = [inflight EXCEPT ![c] = RemoveAt(@, i)]
       /\ request' = SelectFailed(c, inflight[c][i])
  /\ UNCHANGED <<tasksTable, nextId, mounted, userLocation, geo,
                effectLocation, tasks, notif, taskToDelete, deleteDialogOpen>>
  /\ toast' = Null
  /\ resolved' = Null
  /\ UNCHANGED accepts
  /\ UNCHANGED <<feedVars, sideVars, calc>>

\* A fetchTasks that drops its result when a call made later has resolved.
FetchResolveInOrder(c) ==
  /\ \E i \in 1..Len(inflight[c]) :
       LET f == inflight[c][i] IN
       /\ f.phase = "loaded"
       /\ tasks' = [tasks EXCEPT ![c] = IF f.late THEN @
                                        ELSE FilterTasks(f.data, f.loc)]
       /\ resolved' = Some([user |-> c, data |-> f.data, loc |-> f.loc,
                           started |-> f.started, viewer |-> userLocation[c],
                           prev |-> tasks[c], late |-> f.late])
       /\ inflight' = [inflight EXCEPT ![c] = Overtaken(@, i)]
  /\ UNCHANGED <<tasksTable, nextId, mounted, userLocation, geo,
                effectLocation, notif, taskToDelete, deleteDialogOpen>>
  /\ toast' = Null
  /\ request' = Null
  /\ UNCHANGED accepts
  /\ UNCHANGED <<feedVars, sideVars, calc>>

\* The rest of fetchTasks, run when the select has resolved: filter, setTasks.
FetchResolve(c) ==
  /\ \E i \in 1..Len(inflight[c]) :
       LET f == inflight[c][i] IN
       /\ f.phase = "loaded"
       /\ tasks' = [tasks EXCEPT ![c] = FilterTasks(f.data, f.loc)]
       /\ resolved' = Some([user |-> c, data |-> f.data, loc |-> f.loc,
                           started |-> f.started, viewer |-> userLocation[c],
                           prev |-> tasks[c], late |-> f.late])
       /\ inflight' = [inflight EXCEPT ![c] = Overtaken(@, i)]
  /\ UNCHANGED <<tasksTable, nextId, mounted, userLocation, geo,
                effectLocation, notif, taskToDelete, deleteDialogOpen>>
  /\ toast' = Null
  /\ request' = Null
  /\ UNCHANGED accepts
  /\ UNCHANGED <<feedVars, sideVars, calc>>

\* A subscription callback that leaves the fetch out while one is in flight.
NotifyRoomCoalescing(c, room) ==
  /\ mounted[c]
  /\ notif[c] > 0
  /\ Len(inflight[c]) < room
  /\ notif' = [notif EXCEPT ![c] = @ - 1]
  /\ inflight' = [inflight EXCEPT ![c] =
                    IF @ # <<>> THEN @
                    ELSE CallFetch(@, effectLocation[c], userLocation[c], tasks[c])]
  /\ UNCHANGED <<tasksTable, nextId, mounted, userLocation, geo,
                effectLocation, tasks, taskToDelete, deleteDialogOpen>>
  /\ toast' = Null
  /\ request' = Null
  /\ resolved' = Null
  /\ UNCHANGED accepts
  /\ UNCHANGED <<feedVars, sideVars, calc>>

\* The tasks-changes callback registered by the mount effect: () => fetchTasks(),
\* the fetchTasks of the render the effect ran in.
NotifyRoom(c, room) ==
  /\ mounted[c]
  /\ notif[c] > 0
  /\ Len(inflight[c]) < room
  /\ notif' = [notif EXCEPT ![c] = @ - 1]
  /\ inflight' = [inflight EXCEPT ![c] = CallFetch(@, effectLocation[c], userLocation[c], tasks[c])]
  /\ UNCHANGED <<tasksTable, nextId, mounted, userLocation, geo,
                effectLocation, tasks, taskToDelete, deleteDialogOpen>>
  /\ toast' = Null
  /\ request' = Null
  /\ resolved' = Null
  /\ UNCHANGED accepts
  /\ UNCHANGED <<feedVars, sideVars, calc>>

Notify(c) == NotifyRoom(c, MaxInflight)

\* The row with this id as storage holds it: null when there is none.
Stored(id) ==
  IF \E r \in tasksTable : r.id = id
  THEN Some(CHOOSE r \in tasksTable : r.id = id) ELSE Null

Request(c, op, id, ok) ==
  Some([user |-> c, op |-> op, id |-> id, ok |-> ok, before |-> Stored(id)])

\* A submit button that waits for a location in both revisions.
SubmitDisabledInBoth(c) == userLocation[c] = Null

\* The submit button of the create form: `disabled={isCreating || !userLocation}`
\* in the later revision, `disabled={isCreating}` in the first.
SubmitDisabled(c) == revision[c] = 2 /\ userLocation[c] = Null

\* An insert that sends the latitude as longitude and the longitude as latitude.
NewTaskSwapped(c) ==
  [id |-> nextId, creator_id |-> c, status |-> "open", accepted_by |-> Null,
   location_lat |-> IF userLocation[c] = Null THEN Null
                    ELSE Some(Val(userLocation[c]).lng),
   location_lng |-> IF userLocation[c] = Null THEN Null
                    ELSE Some(Val(userLocation[c]).lat),
   location_address |-> IF revision[c] = 2 THEN "My current location"
                                            ELSE "typed address"]

\* An insert that sends no coordinates and the address typed in the form.
NewTaskUnstamped(c) ==
  [id |-> nextId, creator_id |-> c, status |-> "open", accepted_by |-> Null,
   location_lat |-> Null, location_lng |-> Null,
   location_address |-> "typed address"]

\* An insert that names the creator as the one the task is accepted by too.
NewTaskTaken(c) ==
  [id |-> nextId, creator_id |-> c, status |-> "open", accepted_by |-> Some(c),
   location_lat |-> IF userLocation[c] = Null THEN Null
                    ELSE Some(Val(userLocation[c]).lat),
   location_lng |-> IF userLocation[c] = Null THEN Null
                    ELSE Some(Val(userLocation[c]).lng),
   location_address |-> IF revision[c] = 2 THEN "My current location"
                                            ELSE "typed address"]

\* The row handleCreateTask inserts.  The first revision sends userLocation?.lat
\* and the address typed in the form; the later one the location it holds and
\* a fixed address.  Storage gives the id and leaves accepted_by null.
NewTask(c) ==
  [id |-> nextId, creator_id |-> c, status |-> "open", accepted_by |-> Null,
   location_lat |-> IF userLocation[c] = Null THEN Null
                    ELSE Some(Val(userLocation[c]).lat),
   location_lng |-> IF userLocation[c] = Null THEN Null
                    ELSE Some(Val(userLocation[c]).lng),
   location_address |-> IF revision[c] = 2 THEN "My current location"
                                            ELSE "typed address"]

handleCreateTask(c) ==
  /\ nextId <= MaxTasks
  /\ RoomToBroadcast
  /\ IF revision[c] = 2 /\ userLocation[c] = Null
     THEN /\ toast' = Toast(c, "Location needed")
          /\ request' = Null
          /\ UNCHANGED <<tasksTable, nextId, notif>>
     ELSE \E ok \in BOOLEAN :
            /\ request' = Request(c, "insert", nextId, ok)
            /\ IF ok /\ TasksInsertPolicy(c, NewTask(c))
               THEN /\ tasksTable' = tasksTable \cup {NewTask(c)}
                    /\ nextId' = nextId + 1
                    /\ notif' = Broadcast(TRUE)
                    /\ toast' = Toast(c, IF revision[c] = 2 THEN "Task posted!"
                                                            ELSE "Task created!")
               ELSE /\ toast' = Toast(c, "Error")
                    /\ UNCHANGED <<tasksTable, nextId, notif>>
  /\ resolved' = Null
  /\ UNCHANGED <<mounted, userLocation, geo, effectLocation, tasks, inflight,
                 taskToDelete, deleteDialogOpen, accepts>>
  /\ UNCHANGED <<feedVars, sideVars, calc>>

CreateTask(c) ==
  /\ mounted[c]
  /\ ~SubmitDisabled(c)
  /\ handleCreateTask(c)

\* The Accept Task button is rendered for a displayed task that is open and
\* not the user's own.
AcceptOffered(c, t) == t.status = "open" /\ t.creator_id # c

\* .update({ accepted_by: user?.id, status: 'in_progress' })
Accepted(c, r) == [r EXCEPT !.accepted_by = Some(c), !.status = "in_progress"]

\* A request that storage answers without an error reports success, whether
\* or not the policy let it reach a row.
handleAcceptTask(c, taskId) ==
  /\ RoomToBroadcast
  /\ \E ok \in BOOLEAN :
       /\ request' = Request(c, "accept", taskId, ok)
       /\ IF ok
          THEN LET hit == UpdateTargets(c, taskId) IN
               /\ tasksTable' = (tasksTable \ hit) \cup {Accepted(c, r) : r \in hit}
               /\ notif' = Broadcast(hit # {})
               /\ toast' = Toast(c, "Task accepted!")
               /\ accepts' = accepts \cup {taskId}
          ELSE /\ toast' = Toast(c, "Error")
               /\ UNCHANGED <<tasksTable, notif, accepts>>
  /\ resolved' = Null
  /\ UNCHANGED <<nextId, mounted, userLocation, geo, effectLocation, tasks,
                 inflight, taskToDelete, deleteDialogOpen>>
  /\ UNCHANGED <<feedVars, sideVars, calc>>

AcceptTask(c) ==
  /\ mounted[c]
  /\ \E t \in Displayed(c) : AcceptOffered(c, t) /\ handleAcceptTask(c, t.id)

\* The Mark Complete button is rendered for a displayed task in progress that
\* the user accepted; the later revision renders Confirm Done for its creator.
CompleteOffered(c, t) ==
  /\ t.status = "in_progress"
  /\ \/ t.accepted_by = Some(c)
     \/ revision[c] = 2 /\ t.creator_id = c

\* .update({ status: 'completed' })
Completed(r) == [r EXCEPT !.status = "completed"]

\* The later revision looks the task up in the displayed list first and calls
\* fetchTasks at the end.
handleCompleteTask(c, taskId) ==
  /\ revision[c] = 2 => \E t \in Displayed(c) : t.id = taskId
  /\ RoomToBroadcast
  /\ revision[c] = 2 => Len(inflight[c]) < MaxInflight
  /\ \E ok \in BOOLEAN :
       /\ request' = Request(c, "complete", taskId, ok)
       /\ IF ok
          THEN LET hit == UpdateTargets(c, taskId) IN
               /\ tasksTable' = (tasksTable \ hit) \cup {Completed(r) : r \in hit}
               /\ notif' = Broadcast(hit # {})
               /\ toast' = Toast(c, "Task completed!")
               /\ inflight' = IF revision[c] = 2
                              THEN [inflight EXCEPT ![c] =
                                      CallFetch(@, userLocation[c], userLocation[c], tasks[c])]
                              ELSE inflight
          ELSE /\ toast' = Toast(c, "Error")
               /\ UNCHANGED <<tasksTable, notif, inflight>>
  /\ resolved' = Null
  /\ UNCHANGED <<nextId, mounted, userLocation, geo, effectLocation, tasks,
                 taskToDelete, deleteDialogOpen, accepts>>
  /\ UNCHANGED <<feedVars, sideVars, calc>>

CompleteTask(c) ==
  /\ mounted[c]
  /\ \E t \in Displayed(c) : CompleteOffered(c, t) /\ handleCompleteTask(c, t.id)

\* The Delete button (later revision) is rendered for a displayed task that is
\* the user's own and open; it sets taskToDelete and opens the dialog.
DeleteOffered(c, t) == t.creator_id = c /\ t.status = "open"

AskDelete(c) ==
  /\ mounted[c]
  /\ revision[c] = 2
  /\ ~deleteDialogOpen[c]
  /\ \E t \in Displayed(c) :
       /\ DeleteOffered(c, t)
       /\ taskToDelete' = [taskToDelete EXCEPT ![c] = Some(t)]
  /\ deleteDialogOpen' = [deleteDialogOpen EXCEPT ![c] = TRUE]
  /\ toast' = Null
  /\ request' = Null
  /\ resolved' = Null
  /\ UNCHANGED <<tasksTable, nextId, mounted, userLocation, geo,
                 effectLocation, tasks, inflight, notif, accepts>>
  /\ UNCHANGED <<feedVars, sideVars, calc>>

\* The dialog's Delete Task button; the dialog closes on the click.
handleDeleteTask(c) ==
  /\ deleteDialogOpen[c]
  /\ taskToDelete[c] # Null
  /\ RoomToBroadcast
  /\ Len(inflight[c]) < MaxInflight
  /\ deleteDialogOpen' = [deleteDialogOpen EXCEPT ![c] = FALSE]
  /\ \E ok \in BOOLEAN :
       /\ request' = Request(c, "delete", Val(taskToDelete[c]).id, ok)
       /\ IF ok
          THEN LET hit == DeleteTargets(c, Val(taskToDelete[c]).id) IN
               /\ tasksTable' = tasksTable \ hit
               /\ notif' = Broadcast(hit # {})
               /\ toast' = Toast(c, "Task deleted")
               /\ taskToDelete' = [taskToDelete EXCEPT ![c] = Null]
               /\ inflight' = [inflight EXCEPT ![c] =
                                 CallFetch(@, userLocation[c], userLocation[c], tasks[c])]
          ELSE /\ toast' = Toast(c, "Error")
               /\ UNCHANGED <<tasksTable, notif, taskToDelete, inflight>>
  /\ resolved' = Null
  /\ UNCHANGED <<nextId, mounted, userLocation, geo, effectLocation, tasks,
                 accepts>>
  /\ UNCHANGED <<feedVars, sideVars, calc>>

\* CompleteTask is left out: no board ever renders its button (CompleteNotOffered).
Next ==
  \E c \in Users :
    \/ Mount(c)
    \/ GeoSuccess(c)
    \/ GeoError(c)
    \/ ServeSelect(c)
    \/ FetchError(c)
    \/ FetchResolve(c)
    \/ Notify(c)
    \/ CreateTask(c)
    \/ AcceptTask(c)
    \/ AskDelete(c)
    \/ handleDeleteTask(c)

Spec == Init /\ [][Next]_vars

\* ------------------------------------------- the pure functions on their own
GridPoints ==
  [lat : {4 * k : k \in -MaxGridIdx..MaxGridIdx},
   lng : {3 * k : k \in -MaxGridIdx..MaxGridIdx}]

\* A row as the select returns it: one posted without coordinates, and one
\* posted from each of a few points.
SampleTask(lat, lng) ==
  [id |-> 1, creator_id |-> "u1", status |-> "open", accepted_by |-> Null,
   location_lat |-> lat, location_lng |-> lng,
   location_address |-> "typed address"]

SampleTasks ==
  {SampleTask(Null, Null)}
    \cup {SampleTask(Some(p.lat), Some(p.lng)) :
           p \in {g \in GridPoints : g.lat \in {0, 4, 8} /\ g.lng \in {0, 3}}}

TaskLists ==
  UNION {[1..n -> SampleTasks] : n \in 0..MaxListLen}

\* Each behaviour of SpecPure is one evaluation.
\* calculateDistance(a, b) and calculateDistance(b, a)
Measure ==
  /\ calc = Null
  /\ \E a \in GridPoints, b \in GridPoints :
       calc' = Some([op |-> "distance", a |-> a, b |-> b,
                     there |-> calculateDistance(a.lat, a.lng, b.lat, b.lng),
                     back |-> calculateDistance(b.lat, b.lng, a.lat, a.lng)])
  /\ UNCHANGED <<boardVars, feedVars, sideVars>>

\* The filter of fetchTasks on a list, and on its own output.
ApplyFilter ==
  /\ calc = Null
  /\ \E data \in TaskLists, loc \in {Null} \cup {Some(g) : g \in GridPoints} :
       calc' = Some([op |-> "filter", data |-> data, loc |-> loc,
                     once |-> FilterTasks(data, loc),
                     twice |-> FilterTasks(FilterTasks(data, loc), loc)])
  /\ UNCHANGED <<boardVars, feedVars, sideVars>>

NextPure == Measure \/ ApplyFilter

SpecPure == Init /\ [][NextPure]_vars

\* One board of the later revision whose subscription callback may call
\* fetchTasks while an earlier call is still in flight.
Racers == {"u2"}

NotifyOverlapping(c) == NotifyRoom(c, MaxOverlap)

NextRace ==
  \E c \in Racers :
    \/ Mount(c)
    \/ GeoSuccess(c)
    \/ GeoError(c)
    \/ ServeSelect(c)
    \/ FetchError(c)
    \/ FetchResolve(c)
    \/ NotifyOverlapping(c)
    \/ CreateTask(c)
    \/ AskDelete(c)
    \/ handleDeleteTask(c)

SpecRace == Init /\ [][NextRace]_vars

\* ------------------------------------------- the subscription's life cycle
\* The cleanup of the mount effect: supabase.removeChannel(channel).  The page
\* instance goes with its state, and what its pending callbacks set no longer
\* reaches any display; a page mounted again starts from its initial state.
Unmount(c) ==
  /\ mounted[c]
  /\ mounted' = [mounted EXCEPT ![c] = FALSE]
  /\ notif' = [notif EXCEPT ![c] = 0]
  /\ inflight' = [inflight EXCEPT ![c] = <<>>]
  /\ tasks' = [tasks EXCEPT ![c] = <<>>]
  /\ userLocation' = [userLocation EXCEPT ![c] = Null]
  /\ effectLocation' = [effectLocation EXCEPT ![c] = Null]
  /\ geo' = [geo EXCEPT ![c] = "idle"]
  /\ taskToDelete' = [taskToDelete EXCEPT ![c] = Null]
  /\ deleteDialogOpen' = [deleteDialogOpen EXCEPT ![c] = FALSE]
  /\ toast' = Null
  /\ request' = Null
  /\ resolved' = Null
  /\ UNCHANGED <<tasksTable, nextId, accepts>>
  /\ UNCHANGED <<feedVars, sideVars, calc>>

\* Two boards that mount, unmount and post; the board of the later revision
\* may have two fetchTasks calls in flight.
NextLife ==
  \/ \E c \in Users :
       \/ Mount(c)
       \/ Unmount(c)
       \/ ServeSelect(c)
       \/ FetchResolve(c)
       \/ CreateTask(c)
  \/ \E c \in Users \ Racers : Notify(c)
  \/ \E c \in Racers : GeoSuccess(c) \/ NotifyOverlapping(c)

SpecLife == Init /\ [][NextLife]_vars

\* ------------------------------------------------------ the community feed
PostStatuses == {"pending", "approved", "rejected"}

\* public.has_role(uid, 'admin')
HasAdminRole(uid) == uid \in Admins

\* policy "Approved posts are viewable by everyone"
PostsSelectPolicy(uid, row) ==
  row.status = "approved" \/ row.user_id = uid \/ HasAdminRole(uid)

\* policy "Users can create posts"
PostsInsertPolicy(uid, row) == uid = row.user_id

\* policy "Users can update their own posts"
PostsUpdatePolicy(uid, row) == uid = row.user_id \/ HasAdminRole(uid)

\* A feed query that leaves the choice of rows to the select policy.
FeedQueryByPolicyAlone(c) ==
  {r \in postsTable : PostsSelectPolicy(c, r)}

\* from('posts').select(...).eq('status', 'approved'), issued by c
FeedQuery(c) ==
  {r \in postsTable : PostsSelectPolicy(c, r) /\ r.status = "approved"}

\* from('posts').select(...).eq('status', 'pending'), issued by a
PendingQuery(a) ==
  {r \in postsTable : PostsSelectPolicy(a, r) /\ r.status = "pending"}

\* .order('created_at', { ascending: true })
RECURSIVE OrderAsc(_)
OrderAsc(rows) ==
  IF rows = {} THEN <<>>
  ELSE LET oldest == CHOOSE r \in rows : \A q \in rows : r.id <= q.id
       IN <<oldest>> \o OrderAsc(rows \ {oldest})

\* A change on public.posts reaches posts-changes and admin-posts-changes.
RoomForPostsChange ==
  /\ \A c \in Users : postsNotif[c] < MaxNotif
  /\ \A a \in Admins : adminNotif[a] < MaxNotif

FeedBroadcast(changed) ==
  IF changed
  THEN [c \in Users |-> IF feedMounted[c] THEN postsNotif[c] + 1 ELSE postsNotif[c]]
  ELSE postsNotif

AdminBroadcast(changed) ==
  IF changed
  THEN [a \in Admins |-> IF adminMounted[a] THEN adminNotif[a] + 1 ELSE adminNotif[a]]
  ELSE adminNotif

CallSelect(queue) == Append(queue, [phase |-> "sent", data |-> <<>>])

boardQuiet == <<tasksTable, nextId, mounted, userLocation, geo, effectLocation,
                tasks, inflight, notif, taskToDelete, deleteDialogOpen, accepts,
                request, resolved>>

\* CommunityFeed's mount effect: fetchPosts(); subscribe to posts-changes.
FeedMount(c) ==
  /\ ~feedMounted[c]
  /\ feedMounted' = [feedMounted EXCEPT ![c] = TRUE]
  /\ postsInflight' = [postsInflight EXCEPT ![c] = CallSelect(@)]
  /\ toast' = Null
  /\ UNCHANGED <<postsTable, nextPostId, posts, postsNotif, adminMounted,
                 pendingPosts, pendingInflight, adminNotif, approved>>
  /\ UNCHANGED <<boardQuiet, sideVars, calc>>

\* The select of fetchPosts is served.
ServePosts(c) ==
  /\ \E i \in 1..Len(postsInflight[c]) :
       /\ postsInflight[c][i].phase = "sent"
       /\ postsInflight' = [postsInflight EXCEPT ![c][i] =
                              [phase |-> "loaded", data |-> OrderDesc(FeedQuery(c))]]
  /\ toast' = Null
  /\ UNCHANGED <<postsTable, nextPostId, feedMounted, posts, postsNotif,
                 adminMounted, pendingPosts, pendingInflight, adminNotif, approved>>
  /\ UNCHANGED <<boardQuiet, sideVars, calc>>

\* fetchPosts: `if (error) { console.error(...); return; }`
FetchPostsError(c) ==
  /\ \E i \in 1..Len(postsInflight[c]) :
       /\ postsInflight[c][i].phase = "sent"
       /\ postsInflight' = [postsInflight EXCEPT ![c] = RemoveAt(@, i)]
  /\ toast' = Null
  /\ UNCHANGED <<postsTable, nextPostId, feedMounted, posts, postsNotif,
                 adminMounted, pendingPosts, pendingInflight, adminNotif, approved>>
  /\ UNCHANGED <<boardQuiet, sideVars, calc>>

\* fetchPosts: setPosts(data)
FetchPostsResolve(c) ==
  /\ \E i \in 1..Len(postsInflight[c]) :
       /\ postsInflight[c][i].phase = "loaded"
       /\ posts' = [posts EXCEPT ![c] = postsInflight[c][i].data]
       /\ postsInflight' = [postsInflight EXCEPT ![c] = RemoveAt(@, i)]
  /\ toast' = Null
  /\ UNCHANGED <<postsTable, nextPostId, feedMounted, postsNotif,
                 adminMounted, pendingPosts, pendingInflight, adminNotif, approved>>
  /\ UNCHANGED <<boardQuiet, sideVars, calc>>

\* The posts-changes callback: fetchPosts()
PostsNotify(c) ==
  /\ feedMounted[c]
  /\ postsNotif[c] > 0
  /\ Len(postsInflight[c]) < MaxInflight
  /\ postsNotif' = [postsNotif EXCEPT ![c] = @ - 1]
  /\ postsInflight' = [postsInflight EXCEPT ![c] = CallSelect(@)]
  /\ toast' = Null
  /\ UNCHANGED <<postsTable, nextPostId, feedMounted, posts,
                 adminMounted, pendingPosts, pendingInflight, adminNotif, approved>>
  /\ UNCHANGED <<boardQuiet, sideVars, calc>>

\* The row handleCreatePost inserts.
NewPost(c) == [id |-> nextPostId, user_id |-> c, status |-> "pending"]

\* The Post button, with some text typed.
handleCreatePost(c) ==
  /\ feedMounted[c]
  /\ nextPostId <= MaxPosts
  /\ RoomForPostsChange
  /\ \E ok \in BOOLEAN :
       IF ok /\ PostsInsertPolicy(c, NewPost(c))
       THEN /\ postsTable' = postsTable \cup {NewPost(c)}
            /\ nextPostId' = nextPostId + 1
            /\ postsNotif' = FeedBroadcast(TRUE)
            /\ adminNotif' = AdminBroadcast(TRUE)
            /\ toast' = Toast(c, "Post submitted!")
       ELSE /\ toast' = Toast(c, "Error")
            /\ UNCHANGED <<postsTable, nextPostId, postsNotif, adminNotif>>
  /\ UNCHANGED <<feedMounted, posts, postsInflight, adminMounted, pendingPosts,
                 pendingInflight, approved>>
  /\ UNCHANGED <<boardQuiet, sideVars, calc>>

\* AdminDashboard's mount effect, run for an admin: fetchPendingPosts();
\* subscribe to admin-posts-changes.
AdminMount(a) ==
  /\ ~adminMounted[a]
  /\ HasAdminRole(a)
  /\ adminMounted' = [adminMounted EXCEPT ![a] = TRUE]
  /\ pendingInflight' = [pendingInflight EXCEPT ![a] = CallSelect(@)]
  /\ toast' = Null
  /\ UNCHANGED <<postsTable, nextPostId, feedMounted, posts, postsInflight,
                 postsNotif, pendingPosts, adminNotif, approved>>
  /\ UNCHANGED <<boardQuiet, sideVars, calc>>

\* The select of fetchPendingPosts is served.
ServePending(a) ==
  /\ \E i \in 1..Len(pendingInflight[a]) :
       /\ pendingInflight[a][i].phase = "sent"
       /\ pendingInflight' = [pendingInflight EXCEPT ![a][i] =
                                [phase |-> "loaded",
                                 data |-> OrderAsc(PendingQuery(a))]]
  /\ toast' = Null
  /\ UNCHANGED <<postsTable, nextPostId, feedMounted, posts, postsInflight,
                 postsNotif, adminMounted, pendingPosts, adminNotif, approved>>
  /\ UNCHANGED <<boardQuiet, sideVars, calc>>

\* fetchPendingPosts: `if (error) { console.error(...); return; }`
FetchPendingError(a) ==
  /\ \E i \in 1..Len(pendingInflight[a]) :
       /\ pendingInflight[a][i].phase = "sent"
       /\ pendingInflight' = [pendingInflight EXCEPT ![a] = RemoveAt(@, i)]
  /\ toast' = Null
  /\ UNCHANGED <<postsTable, nextPostId, feedMounted, posts, postsInflight,
                 postsNotif, adminMounted, pendingPosts, adminNotif, approved>>
  /\ UNCHANGED <<boardQuiet, sideVars, calc>>

\* fetchPendingPosts: setPendingPosts(data)
FetchPendingResolve(a) ==
  /\ \E i \in 1..Len(pendingInflight[a]) :
       /\ pendingInflight[a][i].phase = "loaded"
       /\ pendingPosts' = [pendingPosts EXCEPT ![a] = pendingInflight[a][i].data]
       /\ pendingInflight' = [pendingInflight EXCEPT ![a] = RemoveAt(@, i)]
  /\ toast' = Null
  /\ UNCHANGED <<postsTable, nextPostId, feedMounted, posts, postsInflight,
                 postsNotif, adminMounted, adminNotif, approved>>
  /\ UNCHANGED <<boardQuiet, sideVars, calc>>

\* The admin-posts-changes callback: fetchPendingPosts()
AdminNotify(a) ==
  /\ adminMounted[a]
  /\ adminNotif[a] > 0
  /\ Len(pendingInflight[a]) < MaxInflight
  /\ adminNotif' = [adminNotif EXCEPT ![a] = @ - 1]
  /\ pendingInflight' = [pendingInflight EXCEPT ![a] = CallSelect(@)]
  /\ toast' = Null
  /\ UNCHANGED <<postsTable, nextPostId, feedMounted, posts, postsInflight,
                 postsNotif, adminMounted, pendingPosts, approved>>
  /\ UNCHANGED <<boardQuiet, sideVars, calc>>

\* from('posts').update({ status }).eq('id', postId), issued by a, for a post
\* of the displayed pending list.
Moderate(a, status, done) ==
  /\ adminMounted[a]
  /\ RoomForPostsChange
  /\ \E i \in 1..Len(pendingPosts[a]) : \E ok \in BOOLEAN :
       LET postId == pendingPosts[a][i].id
           hit == {r \in postsTable : r.id = postId /\ PostsUpdatePolicy(a, r)}
       IN IF ok
          THEN /\ postsTable' = (postsTable \ hit)
                                  \cup {[r EXCEPT !.status = status] : r \in hit}
               /\ postsNotif' = FeedBroadcast(hit # {})
               /\ adminNotif' = AdminBroadcast(hit # {})
               /\ toast' = Toast(a, done)
               /\ approved' = IF status = "approved" /\ hit # {}
                              THEN approved \cup {postId} ELSE approved
          ELSE /\ toast' = Toast(a, "Error")
               /\ UNCHANGED <<postsTable, postsNotif, adminNotif, approved>>
  /\ UNCHANGED <<nextPostId, feedMounted, posts, postsInflight, adminMounted,
                 pendingPosts, pendingInflight>>
  /\ UNCHANGED <<boardQuiet, sideVars, calc>>

handleApprovePost(a) == Moderate(a, "approved", "Post approved")

handleRejectPost(a) == Moderate(a, "rejected", "Post rejected")

NextFeed ==
  \/ \E c \in Users :
       \/ FeedMount(c)
       \/ ServePosts(c)
       \/ FetchPostsError(c)
       \/ FetchPostsResolve(c)
       \/ PostsNotify(c)
       \/ handleCreatePost(c)
  \/ \E a \in Admins :
       \/ AdminMount(a)
       \/ ServePending(a)
       \/ FetchPendingError(a)
       \/ FetchPendingResolve(a)
       \/ AdminNotify(a)
       \/ handleApprovePost(a)
       \/ handleRejectPost(a)

SpecFeed == Init /\ [][NextFeed]_vars

\* ------------------------------------------------------- the Messages page
\* The friends list of each user's page, as fetchFriends loaded it.  u3 is a
\* friend of u1 who runs no page here.
Chatters == Users \cup {"u3"}

friends == [c \in Users |-> IF c = "u1" THEN Chatters \ {c} ELSE {"u1"}]

\* policy "Users can view their own messages"
MessagesSelectPolicy(uid, row) == uid = row.sender_id \/ uid = row.receiver_id

\* policy "Users can send messages"
MessagesInsertPolicy(uid, row) == uid = row.sender_id

\* policy "Users can update messages they received"
MessagesUpdatePolicy(uid, row) == uid = row.receiver_id

\* A stored row as a page holds it: isSending is undefined, hence falsy.
AsMessage(row) ==
  [id |-> row.id, sender_id |-> row.sender_id, receiver_id |-> row.receiver_id,
   delivered_at |-> row.delivered_at, isSending |-> FALSE]

\* .or(and(sender_id.eq.me, receiver_id.eq.friend),
\*     and(sender_id.eq.friend, receiver_id.eq.me))
Conversation(c, f) ==
  {r \in messagesTable :
     /\ MessagesSelectPolicy(c, r)
     /\ \/ r.sender_id = c /\ r.receiver_id = f
        \/ r.sender_id = f /\ r.receiver_id = c}

\* The page of c has a chat channel while a friend is selected.  An INSERT
\* reaches the channel when c may select the row; an UPDATE when, moreover,
\* the row passes the filter `receiver_id=eq.${user.id}`.
HearsInsert(c, row) == selectedFriend[c] # Null /\ MessagesSelectPolicy(c, row)

HearsUpdate(c, row) ==
  selectedFriend[c] # Null /\ MessagesSelectPolicy(c, row) /\ row.receiver_id = c

RECURSIVE EventsOf(_, _)
EventsOf(event, rows) ==
  IF rows = <<>> THEN <<>>
  ELSE <<[event |-> event, new |-> Head(rows)]>> \o EventsOf(event, Tail(rows))

RoomForEvents(n) == \A c \in Users : Len(chatEvents[c]) + n <= MaxEvents

\* Date.now().toString(): an id no stored row and no other pending send has.
TempId(c) ==
  0 - (CHOOSE k \in 1..(Len(sends[c]) + 1) :
         /\ \A i \in 1..Len(sends[c]) : sends[c][i].tempId # 0 - k
         /\ \A j \in 1..(k - 1) : \E i \in 1..Len(sends[c]) : sends[c][i].tempId = 0 - j)

WithoutId(seq, id) == SelectSeq(seq, LAMBDA m : m.id # id)

chatRest == <<boardQuiet, feedVars, friendVars, calc>>

chatQuiet == <<chatRest, bellVars>>

\* onClick={() => setSelectedFriend(friend)} on a friend other than the selected
\* one, and the effects that depend on selectedFriend: the old channel is
\* removed, fetchMessages and markDelivered are called, a channel subscribed.
SelectFriend(c) ==
  /\ Len(chatFetch[c]) < MaxChatFetch
  /\ Len(marks[c]) < MaxMarks
  /\ \E f \in friends[c] :
       /\ selectedFriend[c] # Some(f)
       /\ selectedFriend' = [selectedFriend EXCEPT ![c] = Some(f)]
       /\ chatFetch' = [chatFetch EXCEPT ![c] =
                          Append(@, [phase |-> "sent", friend |-> f, data |-> <<>>])]
       /\ marks' = [marks EXCEPT ![c] =
                      Append(@, [phase |-> "select", friend |-> f, ids |-> {}])]
  /\ chatEvents' = [chatEvents EXCEPT ![c] = <<>>]
  /\ toast' = Null
  /\ UNCHANGED <<messagesTable, nextMsgId, messages, sends>>
  /\ UNCHANGED chatQuiet

\* The select of fetchMessages is served.
ServeMessages(c) ==
  /\ \E i \in 1..Len(chatFetch[c]) :
       /\ chatFetch[c][i].phase = "sent"
       /\ chatFetch' = [chatFetch EXCEPT ![c][i] =
                          [@ EXCEPT !.phase = "loaded",
                                    !.data = OrderAsc(Conversation(c,
                                                     chatFetch[c][i].friend))]]
  /\ toast' = Null
  /\ UNCHANGED <<messagesTable, nextMsgId, selectedFriend, messages, sends,
                 chatEvents, marks>>
  /\ UNCHANGED chatQuiet

\* fetchMessages: `if (error) console.error(error)`
FetchMessagesError(c) ==
  /\ \E i \in 1..Len(chatFetch[c]) :
       /\ chatFetch[c][i].phase = "sent"
       /\ chatFetch' = [chatFetch EXCEPT ![c] = RemoveAt(@, i)]
  /\ toast' = Null
  /\ UNCHANGED <<messagesTable, nextMsgId, selectedFriend, messages, sends,
                 chatEvents, marks>>
  /\ UNCHANGED chatQuiet

\* fetchMessages: `else setMessages(data || [])`
FetchMessagesResolve(c) ==
  /\ \E i \in 1..Len(chatFetch[c]) :
       LET data == chatFetch[c][i].data IN
       /\ chatFetch[c][i].phase = "loaded"
       /\ messages' = [messages EXCEPT ![c] =
                         [k \in 1..Len(data) |-> AsMessage(data[k])]]
       /\ chatFetch' = [chatFetch EXCEPT ![c] = RemoveAt(@, i)]
  /\ toast' = Null
  /\ UNCHANGED <<messagesTable, nextMsgId, selectedFriend, sends, chatEvents,
                 marks>>
  /\ UNCHANGED chatQuiet

\* handleSendMessage up to its first await: the temporary message is appended
\* and the insert sent, to the friend selected at the submit.
handleSendMessage(c) ==
  /\ selectedFriend[c] # Null
  /\ Len(sends[c]) < MaxSends
  /\ LET tempMessage == [id |-> TempId(c), sender_id |-> c,
                         receiver_id |-> Val(selectedFriend[c]),
                         delivered_at |-> Null, isSending |-> TRUE]
     IN /\ messages' = [messages EXCEPT ![c] = Append(@, tempMessage)]
        /\ sends' = [sends EXCEPT ![c] =
                       Append(@, [phase |-> "sent", tempId |-> tempMessage.id,
                                  to |-> tempMessage.receiver_id, data |-> Null])]
  /\ toast' = Null
  /\ UNCHANGED <<messagesTable, nextMsgId, selectedFriend, chatFetch, chatEvents,
                 marks>>
  /\ UNCHANGED chatQuiet

\* The row the insert of handleSendMessage sends; storage gives the id, leaves
\* delivered_at null and sets read to false.
NewMessage(c, to) ==
  [id |-> nextMsgId, sender_id |-> c, receiver_id |-> to, delivered_at |-> Null,
   read |-> FALSE]

\* The channels of NotificationBell, which the inserts below also feed.
\* policy "Anyone can view comments"
CommentsSelectPolicy(uid, row) == TRUE

\* policy "Users can create comments"
CommentsInsertPolicy(uid, row) == uid = row.user_id

\* An INSERT on public.messages reaches new-messages when the row passes the
\* filter `receiver_id=eq.${user.id}`; one on post_comments reaches
\* new-comments.
HearsMessage(c, row) ==
  bellMounted[c] /\ MessagesSelectPolicy(c, row) /\ row.receiver_id = c

HearsComment(c, row) == bellMounted[c] /\ CommentsSelectPolicy(c, row)

BellBroadcast(table, row) ==
  [c \in Users |->
     IF (table = "messages" /\ HearsMessage(c, row))
          \/ (table = "post_comments" /\ HearsComment(c, row))
     THEN Append(bellEvents[c], [table |-> table, new |-> row])
     ELSE bellEvents[c]]

RoomForBellEvents == \A c \in Users : Len(bellEvents[c]) < MaxBellEvents

bellQuiet == <<bellMounted, notifications, unreadCount, bellFetch, commentsTable,
               nextCommentId>>

\* Storage handles the insert: the row is stored and the INSERT published, or
\* the request fails.
ServeInsert(c) ==
  /\ \E i \in 1..Len(sends[c]) : \E ok \in BOOLEAN :
       LET row == NewMessage(c, sends[c][i].to) IN
       /\ sends[c][i].phase = "sent"
       /\ IF ok /\ MessagesInsertPolicy(c, row)
          THEN /\ nextMsgId <= MaxMessages
               /\ RoomForEvents(1)
               /\ RoomForBellEvents
               /\ messagesTable' = messagesTable \cup {row}
               /\ nextMsgId' = nextMsgId + 1
               /\ chatEvents' = [d \in Users |->
                                   IF HearsInsert(d, row)
                                   THEN Append(chatEvents[d],
                                               [event |-> "INSERT", new |-> row])
                                   ELSE chatEvents[d]]
               /\ bellEvents' = BellBroadcast("messages", row)
               /\ sends' = [sends EXCEPT ![c][i] =
                              [@ EXCEPT !.phase = "stored", !.data = Some(row)]]
          ELSE /\ sends' = [sends EXCEPT ![c][i] = [@ EXCEPT !.phase = "failed"]]
               /\ UNCHANGED <<messagesTable, nextMsgId, chatEvents, bellEvents>>
  /\ toast' = Null
  /\ UNCHANGED <<selectedFriend, messages, chatFetch, marks>>
  /\ UNCHANGED <<chatRest, bellQuiet>>

\* The rest of handleSendMessage, run when the insert has answered:
\* setMessages(prev => [...prev.filter(m => m.id !== tempId), data]), or in the
\* catch branch the toast and setMessages(prev => prev.filter(...)).
SendResolve(c) ==
  /\ \E i \in 1..Len(sends[c]) :
       LET q == sends[c][i] IN
       /\ q.phase \in {"stored", "failed"}
       /\ IF q.phase = "stored"
          THEN /\ messages' = [messages EXCEPT ![c] =
                                 Append(WithoutId(@, q.tempId), AsMessage(Val(q.data)))]
               /\ toast' = Null
          ELSE /\ messages' = [messages EXCEPT ![c] = WithoutId(@, q.tempId)]
               /\ toast' = Toast(c, "Failed to send")
       /\ sends' = [sends EXCEPT ![c] = RemoveAt(@, i)]
  /\ UNCHANGED <<messagesTable, nextMsgId, selectedFriend, chatFetch, chatEvents,
                 marks>>
  /\ UNCHANGED chatQuiet

\* The INSERT callback of the chat channel, closed over the selected friend.
OnInsert(c, list, newMsg) ==
  LET isFromFriend == newMsg.sender_id = Val(selectedFriend[c])
      isToMe == newMsg.receiver_id = c
  IN IF (isFromFriend /\ isToMe) \/ newMsg.sender_id = c
     THEN Append(list, AsMessage(newMsg)) ELSE list

\* The UPDATE callback: prev.map(msg => msg.id === updated.id
\*   ? { ...msg, delivered_at: updated.delivered_at } : msg)
OnUpdate(list, updated) ==
  [k \in 1..Len(list) |->
     IF list[k].id = updated.id
     THEN [list[k] EXCEPT !.delivered_at = updated.delivered_at] ELSE list[k]]

\* The channel delivers its oldest event to the page.
Deliver(c) ==
  /\ chatEvents[c] # <<>>
  /\ selectedFriend[c] # Null
  /\ LET e == Head(chatEvents[c]) IN
     messages' = [messages EXCEPT ![c] =
                    IF e.event = "INSERT" THEN OnInsert(c, @, e.new)
                    ELSE OnUpdate(@, e.new)]
  /\ chatEvents' = [chatEvents EXCEPT ![c] = Tail(@)]
  /\ toast' = Null
  /\ UNCHANGED <<messagesTable, nextMsgId, selectedFriend, chatFetch, sends, marks>>
  /\ UNCHANGED chatQuiet

\* markDelivered, its select: the undelivered messages the friend sent to c.
MarkSelect(c) ==
  /\ \E i \in 1..Len(marks[c]) :
       LET ids == {r.id : r \in {q \in messagesTable :
                                   /\ MessagesSelectPolicy(c, q)
                                   /\ q.receiver_id = c
                                   /\ q.sender_id = marks[c][i].friend
                                   /\ q.delivered_at = Null}}
       IN /\ marks[c][i].phase = "select"
          /\ marks' = [marks EXCEPT ![c] =
                         IF ids = {} THEN RemoveAt(@, i)
                         ELSE [@ EXCEPT ![i] = [@ EXCEPT !.phase = "update",
                                                         !.ids = ids]]]
  /\ toast' = Null
  /\ UNCHANGED <<messagesTable, nextMsgId, selectedFriend, messages, chatFetch,
                 sends, chatEvents>>
  /\ UNCHANGED chatQuiet

\* markDelivered, its update: .update({ delivered_at: now }).in('id', ids);
\* each updated row is published as an UPDATE.
MarkUpdate(c) ==
  /\ \E i \in 1..Len(marks[c]) :
       LET hit == {r \in messagesTable :
                     r.id \in marks[c][i].ids /\ MessagesUpdatePolicy(c, r)}
           now == {[r EXCEPT !.delivered_at = Some(1)] : r \in hit}
       IN /\ marks[c][i].phase = "update"
          /\ RoomForEvents(Cardinality(hit))
          /\ messagesTable' = (messagesTable \ hit) \cup now
          /\ chatEvents' =
               [d \in Users |->
                  chatEvents[d] \o
                    EventsOf("UPDATE",
                             SelectSeq(OrderAsc(now), LAMBDA r : HearsUpdate(d, r)))]
          /\ marks' = [marks EXCEPT ![c] = RemoveAt(@, i)]
  /\ toast' = Null
  /\ UNCHANGED <<nextMsgId, selectedFriend, messages, chatFetch, sends>>
  /\ UNCHANGED chatQuiet

\* The pages of both users are open; u1 is the one who writes.
Senders == {"u1"}

NextChat ==
  \/ \E c \in Users :
       \/ SelectFriend(c)
       \/ ServeMessages(c)
       \/ FetchMessagesError(c)
       \/ FetchMessagesResolve(c)
       \/ Deliver(c)
       \/ MarkSelect(c)
       \/ MarkUpdate(c)
  \/ \E c \in Senders :
       \/ handleSendMessage(c)
       \/ ServeInsert(c)
       \/ SendResolve(c)

SpecChat == Init /\ [][NextChat]_vars

\* -------------------------------------------------------- the Friends page
\* public.profiles; u3 has a profile and runs no page here.
Profiles == Chatters

FriendshipStatuses == {"pending", "accepted"}

\* policy "Users can view their own friendships"
FriendshipsSelectPolicy(uid, row) == uid = row.user_id \/ uid = row.friend_id

\* policy "Users can create friendship requests"
FriendshipsInsertPolicy(uid, row) == uid = row.user_id

\* policy "Users can update friendships they're part of"
FriendshipsUpdatePolicy(uid, row) == uid = row.user_id \/ uid = row.friend_id

\* No policy lets anyone delete from public.friendships.
FriendshipsDeletePolicy(uid, row) == FALSE

\* UNIQUE (user_id, friend_id) and CHECK (user_id != friend_id)
FriendshipsConstraints(row) ==
  /\ row.user_id # row.friend_id
  /\ \A r \in friendships :
       ~(r.user_id = row.user_id /\ r.friend_id = row.friend_id)

\* A row of public.friendships.  The id stands for the uuid storage gives: no
\* two rows have the same (user_id, friend_id), and no row is ever deleted.
Friendship(u, f, status) ==
  [id |-> <<u, f>>, user_id |-> u, friend_id |-> f, status |-> status]

\* fetchFriends: .eq('user_id', user.id).eq('status', 'accepted')
FriendsQuery(c) ==
  {r \in friendships :
     FriendshipsSelectPolicy(c, r) /\ r.user_id = c /\ r.status = "accepted"}

\* fetchPendingRequests: .eq('friend_id', user.id).eq('status', 'pending')
RequestsQuery(c) ==
  {r \in friendships :
     FriendshipsSelectPolicy(c, r) /\ r.friend_id = c /\ r.status = "pending"}

\* fetchSuggestions: select('friend_id').eq('user_id', user.id).eq('status', 'pending')
OutgoingQuery(c) ==
  {r.friend_id : r \in {q \in friendships :
                          /\ FriendshipsSelectPolicy(c, q)
                          /\ q.user_id = c /\ q.status = "pending"}}

\* from('profiles').select(...).not('id', 'in', excludeIds).limit(8)
ProfilesQuery(excludeIds) == Profiles \ excludeIds

\* The profiles storage connects to c: c, the accepted friends of c, those
\* with a pending request to c and those c has a pending request to.
Connected(c) ==
  {c} \cup {r.friend_id : r \in {q \in friendships : q.user_id = c}}
      \cup {r.user_id : r \in {q \in friendships :
                                 q.friend_id = c /\ q.status = "pending"}}

\* excludeIds: user.id, the friends and pendingRequests of the render the call
\* was made from, and the outgoing requests just read.
Excluded(c, closure) == {c} \cup closure \cup OutgoingQuery(c)

\* friends.map(f => f.friend_id) and pendingRequests.map(r => r.user_id) of the
\* current render of c.
RenderConnections(c) ==
  {r.friend_id : r \in acceptedFriends[c]} \cup {r.user_id : r \in pendingRequests[c]}

FriendCall(kind, closure) ==
  [kind |-> kind, phase |-> "sent", closure |-> closure, rows |-> {},
   connected |-> {}]

\* A change on public.friendships reaches every friendships-changes channel.
FriendsBroadcast(changed) ==
  IF changed
  THEN [c \in Users |-> IF friendsMounted[c] THEN friendNotif[c] + 1
                        ELSE friendNotif[c]]
  ELSE friendNotif

RoomForFriendsChange == \A c \in Users : friendNotif[c] < MaxNotif

friendsQuiet == <<boardQuiet, feedVars, chatVars, bellVars, calc>>

\* The mount effect: fetchFriends(); fetchPendingRequests(); fetchSuggestions();
\* subscribe to friendships-changes.
FriendsMount(c) ==
  /\ ~friendsMounted[c]
  /\ friendsMounted' = [friendsMounted EXCEPT ![c] = TRUE]
  /\ effectConnections' = [effectConnections EXCEPT ![c] = RenderConnections(c)]
  /\ friendCalls' = [friendCalls EXCEPT ![c] =
                       @ \o <<FriendCall("friends", {}), FriendCall("requests", {}),
                              FriendCall("suggestions", RenderConnections(c))>>]
  /\ toast' = Null /\ befriended' = Null /\ suggested' = Null
  /\ UNCHANGED <<friendships, acceptedFriends, pendingRequests, suggestions,
                 friendNotif>>
  /\ UNCHANGED friendsQuiet

\* The friendships-changes callback of the mount effect: the three fetches of
\* the render the effect ran in.
FriendsNotify(c) ==
  /\ friendsMounted[c]
  /\ friendNotif[c] > 0
  /\ Len(friendCalls[c]) + 3 <= MaxFriendCalls
  /\ friendNotif' = [friendNotif EXCEPT ![c] = @ - 1]
  /\ friendCalls' = [friendCalls EXCEPT ![c] =
                       @ \o <<FriendCall("friends", {}), FriendCall("requests", {}),
                              FriendCall("suggestions", effectConnections[c])>>]
  /\ toast' = Null /\ befriended' = Null /\ suggested' = Null
  /\ UNCHANGED <<friendships, friendsMounted, effectConnections, acceptedFriends,
                 pendingRequests, suggestions>>
  /\ UNCHANGED friendsQuiet

\* The calls of one page are answered in the order they were made.
\* A select of one of the three fetches is served.  fetchSuggestions reads its
\* outgoing requests, builds excludeIds and issues the profiles query.
ServeFriendCall(c) ==
  /\ \E i \in {k \in {1} : k <= Len(friendCalls[c])} :
       LET q == friendCalls[c][i] IN
       /\ q.phase = "sent"
       /\ friendCalls' = [friendCalls EXCEPT ![c][i] =
            [q EXCEPT !.phase = "loaded",
                      !.rows = CASE q.kind = "friends" -> FriendsQuery(c)
                                 [] q.kind = "requests" -> RequestsQuery(c)
                                 [] OTHER -> ProfilesQuery(Excluded(c, q.closure)),
                      !.connected = Connected(c)]]
  /\ toast' = Null /\ befriended' = Null /\ suggested' = Null
  /\ UNCHANGED <<friendships, friendsMounted, effectConnections, acceptedFriends,
                 pendingRequests, suggestions, friendNotif>>
  /\ UNCHANGED friendsQuiet

\* `if (error) { console.error(...); return; }`
FriendCallError(c) ==
  /\ \E i \in {k \in {1} : k <= Len(friendCalls[c])} :
       /\ friendCalls[c][i].phase = "sent"
       /\ friendCalls' = [friendCalls EXCEPT ![c] = RemoveAt(@, i)]
  /\ toast' = Null /\ befriended' = Null /\ suggested' = Null
  /\ UNCHANGED <<friendships, friendsMounted, effectConnections, acceptedFriends,
                 pendingRequests, suggestions, friendNotif>>
  /\ UNCHANGED friendsQuiet

\* setFriends(data) / setPendingRequests(data) / setSuggestions(data || [])
FriendCallResolve(c) ==
  /\ \E i \in {k \in {1} : k <= Len(friendCalls[c])} :
       LET q == friendCalls[c][i] IN
       /\ q.phase = "loaded"
       /\ acceptedFriends' = IF q.kind = "friends"
                             THEN [acceptedFriends EXCEPT ![c] = q.rows]
                             ELSE acceptedFriends
       /\ pendingRequests' = IF q.kind = "requests"
                             THEN [pendingRequests EXCEPT ![c] = q.rows]
                             ELSE pendingRequests
       /\ suggestions' = IF q.kind = "suggestions"
                         THEN [suggestions EXCEPT ![c] = q.rows]
                         ELSE suggestions
       /\ suggested' = IF q.kind = "suggestions"
                       THEN Some([user |-> c, data |-> q.rows,
                                  closure |-> q.closure, connected |-> q.connected])
                       ELSE Null
       /\ friendCalls' = [friendCalls EXCEPT ![c] = RemoveAt(@, i)]
  /\ toast' = Null /\ befriended' = Null
  /\ UNCHANGED <<friendships, friendsMounted, effectConnections, friendNotif>>
  /\ UNCHANGED friendsQuiet

\* The add button of a suggestion or of a search result (handleSearch returns
\* the profiles other than the user's own).
handleSendRequest(c) ==
  /\ friendsMounted[c]
  /\ RoomForFriendsChange
  /\ Len(friendCalls[c]) < MaxFriendCalls
  /\ \E friendId \in suggestions[c] \cup (Profiles \ {c}) : \E ok \in BOOLEAN :
       LET row == Friendship(c, friendId, "pending") IN
       IF ok /\ FriendshipsInsertPolicy(c, row) /\ FriendshipsConstraints(row)
       THEN /\ friendships' = friendships \cup {row}
            /\ friendNotif' = FriendsBroadcast(TRUE)
            /\ toast' = Toast(c, "Friend req sent!")
            /\ friendCalls' = [friendCalls EXCEPT ![c] =
                                 Append(@, FriendCall("suggestions",
                                                      RenderConnections(c)))]
       ELSE /\ toast' = Toast(c, "Error")
            /\ UNCHANGED <<friendships, friendNotif, friendCalls>>
  /\ befriended' = Null /\ suggested' = Null
  /\ UNCHANGED <<friendsMounted, effectConnections, acceptedFriends,
                 pendingRequests, suggestions>>
  /\ UNCHANGED friendsQuiet

\* The rows the insert of handleAcceptRequest adds: the reverse row, unless a
\* constraint refuses it; the handler does not look at the insert's error.
ReverseRow(c, req) ==
  LET row == Friendship(c, req.user_id, "accepted") IN
  IF FriendshipsInsertPolicy(c, row) /\ FriendshipsConstraints(row)
  THEN {row} ELSE {}

\* The accept button of a displayed request.
handleAcceptRequest(c) ==
  /\ friendsMounted[c]
  /\ RoomForFriendsChange
  /\ Len(friendCalls[c]) < MaxFriendCalls
  /\ \E req \in pendingRequests[c] : \E ok \in BOOLEAN :
       IF ok
       THEN LET hit == {r \in friendships :
                          r.id = req.id /\ FriendshipsUpdatePolicy(c, r)}
                updated == (friendships \ hit)
                             \cup {[r EXCEPT !.status = "accepted"] : r \in hit}
                added == ReverseRow(c, req)
            IN /\ friendships' =
                    {r \in updated : \A a \in added : a.id # r.id} \cup added
               /\ friendNotif' = FriendsBroadcast(hit # {} \/ added # {})
               /\ toast' = Toast(c, "You're now friends!")
               /\ befriended' = Some([user |-> c, from |-> req.user_id])
               /\ friendCalls' = [friendCalls EXCEPT ![c] =
                                    Append(@, FriendCall("suggestions",
                                                         RenderConnections(c)))]
       ELSE /\ toast' = Toast(c, "Error")
            /\ befriended' = Null
            /\ UNCHANGED <<friendships, friendNotif, friendCalls>>
  /\ suggested' = Null
  /\ UNCHANGED <<friendsMounted, effectConnections, acceptedFriends,
                 pendingRequests, suggestions>>
  /\ UNCHANGED friendsQuiet

\* The reject button of a displayed request: .delete().eq('id', requestId)
handleRejectRequest(c) ==
  /\ friendsMounted[c]
  /\ RoomForFriendsChange
  /\ Len(friendCalls[c]) < MaxFriendCalls
  /\ \E req \in pendingRequests[c] : \E ok \in BOOLEAN :
       IF ok
       THEN LET hit == {r \in friendships :
                          r.id = req.id /\ FriendshipsDeletePolicy(c, r)}
            IN /\ friendships' = friendships \ hit
               /\ friendNotif' = FriendsBroadcast(hit # {})
               /\ toast' = Toast(c, "Request rejected")
               /\ friendCalls' = [friendCalls EXCEPT ![c] =
                                    Append(@, FriendCall("suggestions",
                                                         RenderConnections(c)))]
       ELSE /\ toast' = Toast(c, "Error")
            /\ UNCHANGED <<friendships, friendNotif, friendCalls>>
  /\ befriended' = Null /\ suggested' = Null
  /\ UNCHANGED <<friendsMounted, effectConnections, acceptedFriends,
                 pendingRequests, suggestions>>
  /\ UNCHANGED friendsQuiet

\* The pages of both users are open; u1 is the one who answers requests.
Hosts == {"u1"}

NextFriends ==
  \/ \E c \in Users :
       \/ FriendsMount(c)
       \/ FriendsNotify(c)
       \/ ServeFriendCall(c)
       \/ FriendCallResolve(c)
       \/ handleSendRequest(c)
  \/ \E c \in Hosts :
       \/ FriendCallError(c)
       \/ handleAcceptRequest(c)
       \/ handleRejectRequest(c)

SpecFriends == Init /\ [][NextFriends]_vars

\* --------------------------------------------------- the notification bell
\* The id of a notification is the id of the message or comment it is about;
\* the ids of the two tables never coincide.
NotificationId(type, id) == <<type, id>>

\* The notification built from a message or from a comment: read is false.
Notification(type, id) ==
  [id |-> NotificationId(type, id), type |-> type, read |-> FALSE]

\* fetchNotifications: .eq('receiver_id', user.id).eq('read', false)
\*   .order('created_at', { ascending: false }).limit(10)
UnreadMessagesQuery(c) ==
  {r \in messagesTable :
     MessagesSelectPolicy(c, r) /\ r.receiver_id = c /\ ~r.read}

\* from('posts').select('user_id').eq('id', comment.post_id).single(), as c
\* may read it.
PostOwner(c, postId) ==
  LET found == {r \in postsTable : r.id = postId /\ PostsSelectPolicy(c, r)}
  IN IF found = {} THEN Null ELSE Some((CHOOSE r \in found : TRUE).user_id)

bellRest == <<boardQuiet, feedVars, chatVars, friendVars, calc>>

\* The effect of NotificationBell: fetchNotifications(); subscribe to
\* new-messages and new-comments.
BellMount(c) ==
  /\ ~bellMounted[c]
  /\ bellMounted' = [bellMounted EXCEPT ![c] = TRUE]
  /\ bellFetch' = [bellFetch EXCEPT ![c] = Append(@, [phase |-> "sent", data |-> <<>>])]
  /\ toast' = Null
  /\ UNCHANGED <<notifications, unreadCount, bellEvents, commentsTable,
                 nextCommentId>>
  /\ UNCHANGED bellRest

\* The select of fetchNotifications is served; the call does not read its
\* error, so a failed select gives it no messages.
ServeNotifications(c) ==
  /\ \E i \in 1..Len(bellFetch[c]) : \E ok \in BOOLEAN :
       /\ bellFetch[c][i].phase = "sent"
       /\ bellFetch' = [bellFetch EXCEPT ![c][i] =
            [phase |-> "loaded",
             data |-> IF ok THEN OrderDesc(UnreadMessagesQuery(c)) ELSE <<>>]]
  /\ toast' = Null
  /\ UNCHANGED <<bellMounted, notifications, unreadCount, bellEvents,
                 commentsTable, nextCommentId>>
  /\ UNCHANGED bellRest

\* setNotifications(messageNotifications);
\* setUnreadCount(messageNotifications.length)
FetchNotificationsResolve(c) ==
  /\ \E i \in 1..Len(bellFetch[c]) :
       LET data == bellFetch[c][i].data IN
       /\ bellFetch[c][i].phase = "loaded"
       /\ notifications' = [notifications EXCEPT ![c] =
            [k \in 1..Len(data) |-> Notification("message", data[k].id)]]
       /\ unreadCount' = [unreadCount EXCEPT ![c] = Len(data)]
       /\ bellFetch' = [bellFetch EXCEPT ![c] = RemoveAt(@, i)]
  /\ toast' = Null
  /\ UNCHANGED <<bellMounted, bellEvents, commentsTable, nextCommentId>>
  /\ UNCHANGED bellRest

\* The callbacks of new-messages and new-comments, at the end of their
\* lookups: setNotifications(prev => [notification, ...prev]);
\* setUnreadCount(prev => prev + 1).  A comment counts when it is on a post of
\* the user and by somebody else.
OnBellEvent(c, e) ==
  IF e.table = "messages"
  THEN Some(Notification("message", e.new.id))
  ELSE IF PostOwner(c, e.new.post_id) = Some(c) /\ e.new.user_id # c
       THEN Some(Notification("post_comment", e.new.id))
       ELSE Null

BellDeliver(c) ==
  /\ bellMounted[c]
  /\ bellEvents[c] # <<>>
  /\ LET notification == OnBellEvent(c, Head(bellEvents[c])) IN
     IF notification # Null
     THEN /\ notifications' = [notifications EXCEPT ![c] = notification \o @]
          /\ unreadCount' = [unreadCount EXCEPT ![c] = @ + 1]
     ELSE UNCHANGED <<notifications, unreadCount>>
  /\ bellEvents' = [bellEvents EXCEPT ![c] = Tail(@)]
  /\ toast' = Null
  /\ UNCHANGED <<bellMounted, bellFetch, commentsTable, nextCommentId>>
  /\ UNCHANGED bellRest

\* markAsRead: prev.map(n => n.id === notificationId ? { ...n, read: true } : n)
\* and setUnreadCount(prev => Math.max(0, prev - 1))
markAsRead(list, count, notificationId) ==
  [list |-> [k \in 1..Len(list) |->
               IF list[k].id = notificationId
               THEN [list[k] EXCEPT !.read = TRUE] ELSE list[k]],
   count |-> IF count - 1 > 0 THEN count - 1 ELSE 0]

\* The link of a notification: '/messages' for a message, '/dashboard', the
\* page the bell is on, for a comment.
LeavesDashboard(notification) == notification.type = "message"

\* The click on a listed notification: markAsRead, then navigate(link).
\* Navigating to '/messages' unmounts the dashboard and the bell with it.
handleNotificationClick(c) ==
  /\ bellMounted[c]
  /\ \E k \in 1..Len(notifications[c]) :
       LET notification == notifications[c][k]
           marked == markAsRead(notifications[c], unreadCount[c], notification.id)
       IN IF LeavesDashboard(notification)
          THEN /\ bellMounted' = [bellMounted EXCEPT ![c] = FALSE]
               /\ notifications' = [notifications EXCEPT ![c] = <<>>]
               /\ unreadCount' = [unreadCount EXCEPT ![c] = 0]
               /\ bellFetch' = [bellFetch EXCEPT ![c] = <<>>]
               /\ bellEvents' = [bellEvents EXCEPT ![c] = <<>>]
          ELSE /\ notifications' = [notifications EXCEPT ![c] = marked.list]
               /\ unreadCount' = [unreadCount EXCEPT ![c] = marked.count]
               /\ UNCHANGED <<bellMounted, bellFetch, bellEvents>>
  /\ toast' = Null
  /\ UNCHANGED <<commentsTable, nextCommentId>>
  /\ UNCHANGED bellRest

\* The row handleComment of PostCard inserts.
NewComment(d, postId) == [id |-> nextCommentId, post_id |-> postId, user_id |-> d]

\* The Post button under a post the feed displays, with some text typed.
handleComment(d) ==
  /\ feedMounted[d]
  /\ nextCommentId <= MaxComments
  /\ RoomForBellEvents
  /\ \E k \in 1..Len(posts[d]) : \E ok \in BOOLEAN :
       LET row == NewComment(d, posts[d][k].id) IN
       IF ok /\ CommentsInsertPolicy(d, row)
       THEN /\ commentsTable' = commentsTable \cup {row}
            /\ nextCommentId' = nextCommentId + 1
            /\ bellEvents' = BellBroadcast("post_comments", row)
            /\ toast' = Null
       ELSE /\ toast' = Toast(d, "Error")
            /\ UNCHANGED <<commentsTable, nextCommentId, bellEvents>>
  /\ UNCHANGED <<bellMounted, notifications, unreadCount, bellFetch>>
  /\ UNCHANGED bellRest

\* The bell of u1, who posts; the admin approves and u2 comments.
BellOwners == {"u1"}

Commenters == {"u2"}

NextBell ==
  \/ \E c \in BellOwners :
       \/ BellMount(c)
       \/ ServeNotifications(c)
       \/ FetchNotificationsResolve(c)
       \/ BellDeliver(c)
       \/ handleNotificationClick(c)
       \/ handleCreatePost(c)
  \/ \E d \in Commenters :
       \/ handleComment(d)
  \/ \E c \in Users :
       \/ FeedMount(c)
       \/ ServePosts(c)
       \/ FetchPostsResolve(c)
       \/ PostsNotify(c)
  \/ \E a \in Admins :
       \/ AdminMount(a)
       \/ ServePending(a)
       \/ FetchPendingResolve(a)
       \/ AdminNotify(a)
       \/ handleApprovePost(a)

SpecBell == Init /\ [][NextBell]_vars

\* No displayed row is ever in progress, so the Mark Complete and Confirm Done
\* buttons are never rendered and handleCompleteTask is never called.
CompleteNotOffered ==
  \A c \in Users : \A t \in Displayed(c) : ~CompleteOffered(c, t)

\* ------------------------------------------------------------------ claims
HasLocation(t) == t.location_lat # Null /\ t.location_lng # Null

DistanceTo(loc, t) ==
  calculateDistance(loc.lat, loc.lng, Val(t.location_lat), Val(t.location_lng))

Rows(seq) == {seq[i] : i \in 1..Len(seq)}

\* C1 (as claimed): when a fetchTasks call that filters with a viewer location
\* resolves, a fetched task with both coordinates non-null, a coordinate of 0
\* included, is displayed if and only if it lies within 50 m of the viewer.
C1_LocatedShownIffWithin50 ==
  resolved # Null /\ Val(resolved).loc # Null =>
    \A t \in Rows(Val(resolved).data) :
      HasLocation(t) =>
        (t \in Displayed(Val(resolved).user)
           <=> WithinThreshold(DistanceTo(Val(Val(resolved).loc), t)))

\* C2: when a fetchTasks call resolves while userLocation is null, the
\* displayed list is the fetched list: the same tasks in the same order.
C2_NoLocationDisplaysAll ==
  resolved # Null /\ Val(resolved).viewer = Null =>
    tasks[Val(resolved).user] = Val(resolved).data

C2_Witness ==
  /\ resolved # Null
  /\ Val(resolved).viewer = Null
  /\ Len(Val(resolved).data) = 2
  /\ \E t \in Rows(Val(resolved).data) : HasLocation(t)

\* C3: a fetched task whose location is null is displayed after every
\* resolved fetchTasks call, whatever userLocation the call filtered with.
C3_NullLocationAlwaysShown ==
  resolved # Null =>
    \A t \in Rows(Val(resolved).data) :
      t.location_lat = Null /\ t.location_lng = Null =>
        t \in Displayed(Val(resolved).user)

C3_Witness ==
  /\ resolved # Null
  /\ Val(resolved).loc # Null
  /\ \E t \in Rows(Val(resolved).data) :
       t.location_lat = Null /\ t.location_lng = Null

\* Nothing is pending for the board of c: what it displays changes again only
\* after a user action or a change of storage.
Quiescent(c) ==
  mounted[c] /\ geo[c] # "pending" /\ inflight[c] = <<>> /\ notif[c] = 0

\* C4 (as claimed): once geolocation has succeeded, the displayed list gets
\* re-filtered with the location by itself, so when nothing is pending any more
\* no displayed task has a location farther than 50 m from the viewer.
C4_RefilteredOnceLocated ==
  \A c \in Users :
    userLocation[c] # Null /\ Quiescent(c) =>
      \A t \in Displayed(c) :
        HasLocation(t) => WithinThreshold(DistanceTo(Val(userLocation[c]), t))

\* C5 (as claimed): a fetchTasks call made after userLocation was set, a call
\* made by the tasks-changes subscription included, displays on resolving only
\* tasks with no location or within 50 m of the viewer.
C5_LaterFetchesFilter ==
  resolved # Null /\ Val(resolved).started # Null =>
    \A t \in Displayed(Val(resolved).user) :
      HasLocation(t) => WithinThreshold(DistanceTo(Val(Val(resolved).started), t))

\* C6 (as claimed): after a user other than the creator accepts a task that
\* is stored open, the stored task is in_progress and accepted by that user.
C6_AcceptTakesEffect ==
  request # Null =>
    LET q == Val(request) IN
    (/\ q.op = "accept" /\ q.ok
     /\ q.before # Null
     /\ Val(q.before).status = "open"
     /\ Val(q.before).creator_id # q.user)
    => /\ Stored(q.id) # Null
       /\ Val(Stored(q.id)).status = "in_progress"
       /\ Val(Stored(q.id)).accepted_by = Some(q.user)

\* Every stored task is open and accepted by nobody: the update policy lets
\* no accept reach a row, so no status ever leaves open.
AllStoredOpen ==
  \A r \in tasksTable : r.status = "open" /\ r.accepted_by = Null

\* C8 (as claimed): a task leaves storage only through a delete by its creator
\* while it is stored open, and a delete by the creator of a task another user
\* has accepted leaves the task in storage.
C8_DeleteOnlyOpenByCreator ==
  request # Null =>
    LET q == Val(request) IN
    q.op = "delete" /\ q.ok /\ q.before # Null =>
      /\ Stored(q.id) = Null =>
           Val(q.before).creator_id = q.user /\ Val(q.before).status = "open"
      /\ q.id \in accepts => Stored(q.id) # Null

GeoFailed(c) == geo[c] \in {"error", "unsupported"}

GeoWarnings == {"Location denied", "Location Error"}

\* C10 (as claimed): when geolocation is denied or missing, the viewer location
\* stays absent, a warning shows, a resolved fetch displays the whole fetched
\* list, and create and accept stay enabled.
C10_DegradesWithoutBlocking ==
  \A c \in Users :
    GeoFailed(c) =>
      /\ userLocation[c] = Null
      /\ LocationBanner(c)
      /\ resolved # Null /\ Val(resolved).user = c =>
           tasks[c] = Val(resolved).data
      /\ ~SubmitDisabled(c)
      /\ \A t \in Displayed(c) : AcceptOffered(c, t) /\ RoomToBroadcast =>
           ENABLED handleAcceptTask(c, t.id)

\* What holds of a board whose geolocation was denied or is missing.
DegradedBoard ==
  \A c \in Users :
    GeoFailed(c) =>
      /\ userLocation[c] = Null
      /\ LocationBanner(c)
      /\ resolved # Null /\ Val(resolved).user = c =>
           tasks[c] = Val(resolved).data
      /\ revision[c] = 1 /\ nextId <= MaxTasks /\ RoomToBroadcast =>
           ENABLED CreateTask(c)
      /\ revision[c] = 2 => SubmitDisabled(c) /\ ~ENABLED CreateTask(c)
      /\ \A t \in Displayed(c) : AcceptOffered(c, t) /\ RoomToBroadcast =>
           ENABLED handleAcceptTask(c, t.id)
      /\ \A t \in Displayed(c) :
           CompleteOffered(c, t) /\ RoomToBroadcast /\ Len(inflight[c]) < MaxInflight
             => ENABLED handleCompleteTask(c, t.id)

\* The error callback of the geolocation request raises the warning toast.
DenialWarns ==
  \A c \in Users :
    geo[c] = "pending" /\ geo'[c] = "error" =>
      /\ toast' # Null
      /\ Val(toast').user = c
      /\ Val(toast').title \in GeoWarnings

\* C10 (amended): when geolocation is denied or missing, the viewer location
\* stays absent, a warning shows (the toast of the denial, and the no-location
\* banner in both cases), a resolved fetch displays the whole fetched list,
\* accept and complete stay enabled for the tasks they are offered for, and
\* create stays enabled in the first revision alone: the later revision
\* disables it until there is a location.
C10_DegradesCreateGated == []DegradedBoard /\ [][DenialWarns]_vars

\* A board without a location, after the failure, has just displayed a fetched
\* list that holds a located task of another user, and offers to accept it.
C10_Witness ==
  \E c \in Users :
    /\ GeoFailed(c)
    /\ resolved # Null /\ Val(resolved).user = c
    /\ \E t \in Displayed(c) : HasLocation(t) /\ AcceptOffered(c, t)

\* A fetchTasks call of this board has just failed.
SelectJustFailed ==
  request # Null /\ Val(request).op = "select" /\ ~Val(request).ok

\* C11 (as claimed): when a fetchTasks call fails, the displayed list is what
\* it was before the call was made, and the failure starts no new call.
C11_FailedFetchShowsListAtStart ==
  SelectJustFailed =>
    LET q == Val(request) IN
    /\ tasks[q.user] = q.shown
    /\ Len(inflight[q.user]) = q.pending - 1

\* C11 (amended): when a fetchTasks call fails, the displayed list is what it
\* was just before the failure was handled (it is the list of the time the call
\* was made unless another call of the board resolved in between), and the
\* failure starts no new call.
C11_FailedFetchChangesNothing ==
  SelectJustFailed =>
    LET q == Val(request) IN
    /\ tasks[q.user] = q.display
    /\ Len(inflight[q.user]) = q.pending - 1

\* A call fails while the board displays a list another call, resolved since,
\* put there.
C11_Witness ==
  /\ SelectJustFailed
  /\ tasks[Val(request).user] # <<>>
  /\ tasks[Val(request).user] # Val(request).shown

\* C12 (as claimed): every request of the board that storage answers with an
\* error raises a toast for the user.
C12_EveryFailureReported ==
  request # Null /\ ~Val(request).ok =>
    toast # Null /\ Val(toast).user = Val(request).user

\* C13: in the later revision every row handleCreateTask inserts is open, names
\* the user as creator, carries the viewer location held at the submit and the
\* address "My current location"; without a viewer location nothing is inserted.
C13_LaterRevisionStampsLocation ==
  /\ \A r \in tasksTable :
       revision[r.creator_id] = 2 =>
         /\ r.location_lat # Null /\ r.location_lng # Null
         /\ r.location_address = "My current location"
  /\ request # Null /\ Val(request).op = "insert"
       /\ revision[Val(request).user] = 2 =>
       LET q == Val(request) IN
       /\ userLocation[q.user] # Null
       /\ IF q.ok
          THEN Stored(q.id) =
                 Some([id |-> q.id, creator_id |-> q.user, status |-> "open",
                       accepted_by |-> Null,
                       location_lat |-> Some(Val(userLocation[q.user]).lat),
                       location_lng |-> Some(Val(userLocation[q.user]).lng),
                       location_address |-> "My current location"])
          ELSE Stored(q.id) = Null
  /\ \A c \in Users :
       revision[c] = 2 /\ userLocation[c] = Null =>
         ~ENABLED (handleCreateTask(c) /\ tasksTable' # tasksTable)

\* A board of the later revision has just inserted a task.
C13_Witness ==
  /\ request # Null
  /\ Val(request).op = "insert" /\ Val(request).ok
  /\ revision[Val(request).user] = 2
  /\ Stored(Val(request).id) # Null

Measured == calc # Null /\ Val(calc).op = "distance"

Filtered == calc # Null /\ Val(calc).op = "filter"

\* C14: the filter applied to its own output, with the same viewer location,
\* returns that output.
C14_FilterIdempotent ==
  Filtered => Val(calc).twice = Val(calc).once

\* The filter, given a viewer location, has dropped a task and kept another.
C14_Witness ==
  /\ Filtered
  /\ Val(calc).loc # Null
  /\ Val(calc).once # <<>>
  /\ Len(Val(calc).once) < Len(Val(calc).data)

\* C15: calculateDistance(A, B) = calculateDistance(B, A).
C15_DistanceSymmetric ==
  Measured => Val(calc).there = Val(calc).back

\* Two points that differ in latitude and in longitude have been measured.
C15_Witness ==
  /\ Measured
  /\ Val(calc).a.lat # Val(calc).b.lat
  /\ Val(calc).a.lng # Val(calc).b.lng
  /\ Val(calc).there > 0

\* C16: calculateDistance of a point and itself is 0, and a task posted from
\* the viewer's own position passes the filter.
C16_ZeroAtSamePoint ==
  /\ Measured /\ Val(calc).a = Val(calc).b => Val(calc).there = 0
  /\ Filtered /\ Val(calc).loc # Null =>
       \A i \in 1..Len(Val(calc).data) :
         LET t == Val(calc).data[i] IN
         /\ t.location_lat = Some(Val(Val(calc).loc).lat)
         /\ t.location_lng = Some(Val(Val(calc).loc).lng)
         => t \in Rows(Val(calc).once)

\* A list holding a task posted from the viewer's position, off the equator
\* and off the prime meridian, has been filtered and the task kept.
C16_Witness ==
  /\ Filtered
  /\ Val(calc).loc # Null
  /\ Val(Val(calc).loc).lat # 0 /\ Val(Val(calc).loc).lng # 0
  /\ \E t \in Rows(Val(calc).once) :
       /\ t.location_lat = Some(Val(Val(calc).loc).lat)
       /\ t.location_lng = Some(Val(Val(calc).loc).lng)

\* A step that starts a getCurrentPosition request for this board.
StartsAcquisition(c) == geo[c] # "pending" /\ geo'[c] = "pending"

\* C17 (as claimed): after the geolocation request of a board has failed, a
\* step of the board that starts a new request is available to the user.
C17_RetryAvailable ==
  \A c \in Users :
    geo[c] = "error" => ENABLED (Next /\ StartsAcquisition(c))

\* C18 (as claimed): no operation of the board writes the viewer's coordinates
\* to storage, so no stored row carries coordinates.
C18_NoCoordinatesStored ==
  \A r \in tasksTable : r.location_lat = Null /\ r.location_lng = Null

\* A step writes these coordinates only as those of a row it inserts.
WritesLocationOnInsertOnly ==
  \A r \in tasksTable' \ tasksTable :
    IF \E old \in tasksTable : old.id = r.id
    THEN \E old \in tasksTable :
           /\ old.id = r.id
           /\ old.location_lat = r.location_lat
           /\ old.location_lng = r.location_lng
    ELSE /\ request' # Null
         /\ Val(request').op = "insert"
         /\ r.creator_id = Val(request').user
         /\ LET loc == userLocation[r.creator_id] IN
            IF loc = Null
            THEN r.location_lat = Null /\ r.location_lng = Null
            ELSE /\ r.location_lat = Some(Val(loc).lat)
                 /\ r.location_lng = Some(Val(loc).lng)

\* C18 (amended): the viewer's coordinates reach storage through create alone,
\* as the location_lat and location_lng of the inserted task; no other
\* operation of the board writes coordinates.
C18_CoordinatesStoredByCreateOnly == [][WritesLocationOnInsertOnly]_vars

\* A board of the first revision that holds a location has inserted a task,
\* and the stored row carries coordinates.
C18_Witness ==
  /\ request # Null
  /\ Val(request).op = "insert" /\ Val(request).ok
  /\ revision[Val(request).user] = 1
  /\ Stored(Val(request).id) # Null
  /\ Val(Stored(Val(request).id)).location_lat # Null

\* A step inserts posts as pending only.
InsertsPostsPending ==
  \A r \in postsTable' :
    (\A old \in postsTable : old.id # r.id) => r.status = "pending"

\* Only posts handleApprovePost has updated are stored approved, and a feed
\* displays no other post.
ShowsModeratedOnly ==
  /\ \A r \in postsTable : r.status = "approved" => r.id \in approved
  /\ \A c \in Users : \A i \in 1..Len(posts[c]) : posts[c][i].id \in approved

\* C19: handleCreatePost stores a post as pending, and no feed displays a post
\* before handleApprovePost has been applied to it.
C19_FeedShowsApprovedOnly == []ShowsModeratedOnly /\ [][InsertsPostsPending]_vars

\* A feed displays a post while a post of the viewer's own waits for review
\* and is not displayed.
C19_Witness ==
  \E c \in Users :
    /\ posts[c] # <<>>
    /\ \E r \in postsTable :
         /\ r.user_id = c /\ r.status = "pending"
         /\ \A i \in 1..Len(posts[c]) : posts[c][i].id # r.id

\* C20: a fetchTasks call that resolves after a call made later than it has
\* resolved still replaces the displayed list with its own, older, rows.
C20_LateFetchOverwrites ==
  resolved # Null /\ Val(resolved).late =>
    tasks[Val(resolved).user] = FilterTasks(Val(resolved).data, Val(resolved).loc)

\* A call has resolved after a later one, and the list it put on display lacks
\* a stored task that the list displayed before it showed.
C20_Witness ==
  /\ resolved # Null
  /\ Val(resolved).late
  /\ \E t \in Rows(Val(resolved).prev) :
       /\ t \in tasksTable
       /\ t \notin Rows(Val(resolved).data)
       /\ t \notin Displayed(Val(resolved).user)

\* A notification delivered to a mounted board starts one fetchTasks call, and
\* a board that is not mounted gets no notification and starts no call.
OneFetchPerNotification ==
  \A c \in Users :
    /\ mounted[c] /\ mounted'[c] /\ notif'[c] < notif[c] =>
         /\ notif'[c] = notif[c] - 1
         /\ Len(inflight'[c]) = Len(inflight[c]) + 1
         /\ inflight'[c][Len(inflight'[c])].phase = "sent"
    /\ ~mounted'[c] => notif'[c] = 0 /\ inflight'[c] = <<>>

\* C21: while the board is mounted every change notification starts exactly
\* one fetchTasks call, whether or not a call is in flight already, and from
\* the unmount on no notification starts a call.
C21_OneFetchPerNotification == [][OneFetchPerNotification]_vars

\* Two calls made by the subscription callback (they filter with the location
\* of the mount render, null, on a board that holds one) are in flight at once,
\* and the other user's board, which posted a task, is no longer mounted.
C21_Witness ==
  \E c \in Users : \E d \in Users \ {c} :
    /\ Len(inflight[c]) = 2
    /\ \A i \in 1..2 : inflight[c][i].loc = Null /\ inflight[c][i].started # Null
    /\ ~mounted[d]
    /\ \E r \in tasksTable : r.creator_id = d

\* Nothing is pending for the Messages page of c: no fetch, no send and no
\* event of its channel.
ChatSettled(c) ==
  /\ selectedFriend[c] # Null
  /\ chatFetch[c] = <<>> /\ sends[c] = <<>> /\ chatEvents[c] = <<>>

\* C22 (as claimed): once the sends of a page are answered and the events of
\* its channel delivered, whichever came first, the displayed conversation
\* holds no temporary message and no stored message more than once.
C22_SentMessageShownOnce ==
  \A c \in Users :
    sends[c] = <<>> /\ chatEvents[c] = <<>> =>
      /\ \A k \in 1..Len(messages[c]) : ~messages[c][k].isSending
      /\ \A j, k \in 1..Len(messages[c]) :
           messages[c][j].id = messages[c][k].id => j = k

\* C23 (as claimed): once markDelivered has run and every event is delivered,
\* a message the user sent to the selected friend that is stored as delivered
\* is displayed as delivered on the sender's page, with no new fetch.
C23_DeliveryReachesSender ==
  \A c \in Users :
    /\ ChatSettled(c)
    /\ \A d \in Users : marks[d] = <<>> /\ chatEvents[d] = <<>>
    => \A k \in 1..Len(messages[c]) : \A r \in messagesTable :
         /\ r.id = messages[c][k].id
         /\ r.sender_id = c
         /\ r.receiver_id = Val(selectedFriend[c])
         /\ r.delivered_at # Null
         => messages[c][k].delivered_at # Null

\* C26 (as claimed, of a page with nothing pending): every message of the
\* displayed conversation is between the user and the selected friend.
C26_ConversationWithSelectedOnly ==
  \A c \in Users :
    ChatSettled(c) =>
      \A k \in 1..Len(messages[c]) :
        {messages[c][k].sender_id, messages[c][k].receiver_id}
          = {c, Val(selectedFriend[c])}

\* C24 (as claimed): no profile a fetchSuggestions call displays was, when the
\* call issued its profiles query, the user, an accepted friend of the user,
\* or the other party of a pending request, whichever call site made the call.
C24_SuggestionsExcludeConnections ==
  suggested # Null =>
    Val(suggested).data \cap Val(suggested).connected = {}

\* C27 (as claimed): once handleAcceptRequest has reported success for a
\* request from A to B, each of the two is in the other's friends list, also
\* when B had a pending request to A.
C27_AcceptMakesFriendsBothWays ==
  befriended # Null =>
    LET b == Val(befriended).user
        a == Val(befriended).from
    IN /\ \E r \in FriendsQuery(a) : r.friend_id = b
       /\ \E r \in FriendsQuery(b) : r.friend_id = a

\* C29: in every reachable state the unread count of a mounted bell is the
\* number of notifications in its list whose read flag is false, and is never
\* negative.
C29_UnreadCountMatchesList ==
  \A c \in Users :
    bellMounted[c] =>
      /\ unreadCount[c] >= 0
      /\ unreadCount[c] =
           Cardinality({k \in 1..Len(notifications[c]) : ~notifications[c][k].read})

\* A step that keeps the decisions taken: no stored post goes from rejected to
\* approved or from approved to rejected.
DecisionKept ==
  \A r \in postsTable : \A q \in postsTable' :
    r.id = q.id =>
      /\ ~(r.status = "rejected" /\ q.status = "approved")
      /\ ~(r.status = "approved" /\ q.status = "rejected")

\* C28: a moderation decision is final: no step takes a post's stored status
\* from rejected to approved or from approved to rejected.
C28_DecisionIsFinal == [][DecisionKept]_vars

====
